---- MODULE Spec2Model ----
(***************************************************************************)
(* A model of the MCP-Tx reliability session (mcp_tx/session.py and        *)
(* mcp_tx/types.py): call_tool with input validation, the deduplication    *)
(* cache, the concurrency semaphore, the retry loop and the lifecycle      *)
(* trackers.  The session runs on one cooperative scheduler, so every      *)
(* action is the code between two suspension points (awaits).              *)
(***************************************************************************)
EXTENDS Integers, Sequences, FiniteSets, TLC

(***************************************************************************)
(* Optional values: Python's None is the empty tuple, a present value x is *)
(* the one-element tuple <<x>>.                                            *)
(***************************************************************************)
None == <<>>

Some(x) == <<x>>

(***************************************************************************)
(* Bounds of the model.                                                    *)
(***************************************************************************)
\* The clock (datetime.utcnow()) runs over 0..MaxTime ticks.
MaxTime == 2

\* config.deduplication_window_ms, in ticks.
DedupWindow == 1

\* config.max_concurrent_requests.
MaxConcurrentRequests == 1

\* The cache's soft cap (1000 entries in the source) and the number of
\* oldest entries one overflow removes (100 in the source), scaled down.
CacheLimit == 1

TrimCount == 1

\* The concurrently running callers of call_tool (task slots).
Procs == {"t1", "t2"}

\* The tasks that invoke FastMCPTx.initialize concurrently
Invokers == {"i1", "i2", "i3", "i4"}

(***************************************************************************)
(* Strings.  A name or a key is a tuple of characters; an error message is *)
(* a tuple of words.  The string operations the code uses are computed on  *)
(* these tuples.                                                           *)
(***************************************************************************)
AlnumChars == {"a", "k", "1", "2"}

Whitespace == {" "}

RECURSIVE LStrip(_)
LStrip(s) == IF s # <<>> /\ Head(s) \in Whitespace THEN LStrip(Tail(s)) ELSE s

RECURSIVE RStrip(_)
RStrip(s) ==
    IF s # <<>> /\ s[Len(s)] \in Whitespace THEN RStrip(SubSeq(s, 1, Len(s) - 1)) ELSE s

\* str.strip()
Strip(s) == RStrip(LStrip(s))

\* str.replace(old, new) for one-character old and new
Replace(s, old, new) == [i \in 1..Len(s) |-> IF s[i] = old THEN new ELSE s[i]]

\* str.isalnum(): non-empty and every character alphanumeric
IsAlnum(s) == Len(s) > 0 /\ \A i \in 1..Len(s) : s[i] \in AlnumChars

\* str.lower() / str.upper() of one word
Lower(w) ==
    CASE w \in {"Network", "NETWORK", "network"} -> "network"
      [] w \in {"TEMPORARY_FAILURE"} -> "temporary_failure"
      [] w \in {"CONNECTION_ERROR"} -> "connection_error"
      [] w \in {"Tool"} -> "tool"
      [] w \in {"token=abc"} -> "token=abc"
      [] OTHER -> w

Upper(w) ==
    CASE w \in {"Network", "NETWORK", "network"} -> "NETWORK"
      [] w \in {"error"} -> "ERROR"
      [] w \in {"timeout"} -> "TIMEOUT"
      [] w \in {"Tool", "tool"} -> "TOOL"
      [] w \in {"call", "call:"} -> "CALL"
      [] w \in {"after"} -> "AFTER"
      [] w \in {"during"} -> "DURING"
      [] w \in {"bad"} -> "BAD"
      [] w \in {"request"} -> "REQUEST"
      [] w \in {"failed"} -> "FAILED"
      [] w \in {"auth"} -> "AUTH"
      [] w \in {"Nms"} -> "NMS"
      [] w \in {"token=abc"} -> "TOKEN=ABC"
      [] OTHER -> w

LowerStr(msg) == [i \in 1..Len(msg) |-> Lower(msg[i])]

UpperStr(msg) == [i \in 1..Len(msg) |-> Upper(msg[i])]

\* The tokens of interest a word has as substrings.
SubstringsOf(w) ==
    CASE w = "network" -> {"network"}
      [] w = "connection_error" -> {"connection"}
      [] w = "NETWORK_ERROR" -> {"NETWORK_ERROR"}
      [] w = "CONNECTION_ERROR" -> {"CONNECTION_ERROR"}
      [] w = "TEMPORARY_FAILURE" -> {"TEMPORARY_FAILURE"}
      [] w = "TIMEOUT" -> {"TIMEOUT"}
      [] OTHER -> {}

\* Python's `tok in text`
Contains(msg, tok) == \E i \in 1..Len(msg) : tok \in SubstringsOf(msg[i])

(***************************************************************************)
(* types.py: the error taxonomy.  An error is its class, its message       *)
(* (str(e)), its error_code attribute when it has one, and its retryable   *)
(* flag (read only for the MCPTxError classes).                            *)
(***************************************************************************)
MCPTxErrorClasses == {"MCPTxError", "MCPTxTimeoutError", "MCPTxNetworkError", "MCPTxSequenceError"}

\* A timeout error that is not retryable
MCPTxTimeoutErrorFatal(timeout_ms) ==
    [cls |-> "MCPTxTimeoutError",
     msg |-> <<"Tool", "call", "timeout", "after", "Nms">>,
     error_code |-> Some("MCP_TX_TIMEOUT"),
     retryable |-> FALSE]

MCPTxTimeoutError(timeout_ms) ==
    [cls |-> "MCPTxTimeoutError",
     msg |-> <<"Tool", "call", "timeout", "after", "Nms">>,
     error_code |-> Some("MCP_TX_TIMEOUT"),
     retryable |-> TRUE]

MCPTxNetworkError(original) ==
    [cls |-> "MCPTxNetworkError",
     msg |-> <<"Network", "error", "during", "tool", "call:">> \o original.msg,
     error_code |-> Some("MCP_TX_NETWORK_ERROR"),
     retryable |-> TRUE]

\* A plain exception raised by the underlying session: no error_code, no flag.
PlainError(words) ==
    [cls |-> "Exception", msg |-> words, error_code |-> None, retryable |-> FALSE]

\* What the underlying session's send_request may raise.
RawErrors ==
    { PlainError(<<"Network", "error">>),
      PlainError(<<"TEMPORARY_FAILURE">>),
      PlainError(<<"auth", "failed", "token=abc">>) }

\* Long texts the underlying session may raise: 200 characters, 202, 200 that
\* redaction makes 201, and two over 200 that the loop retries.
LongErrors ==
    { PlainError(<<"x198", "a">>),
      PlainError(<<"x200", "a">>),
      PlainError(<<"x190", "token=abc">>),
      PlainError(<<"TEMPORARY_FAILURE", "x190">>),
      PlainError(<<"network", "x190">>) }

\* What the underlying session's send_request may return.
Responses == {"r1", "r2"}

(***************************************************************************)
(* types.py: RetryPolicy and MCPTxConfig.                                  *)
(***************************************************************************)
DefaultRetryableErrors == {"CONNECTION_ERROR", "TIMEOUT", "NETWORK_ERROR", "TEMPORARY_FAILURE"}

RetryPolicy(max_attempts) ==
    [max_attempts |-> max_attempts, retryable_errors |-> DefaultRetryableErrors]

\* config.retry_policy: the session's default policy.
ConfigRetryPolicy == RetryPolicy(2)

\* config.default_timeout_ms
DefaultTimeoutMs == 30000

\* The policies a caller passes as retry_policy.
CallerPolicies == {RetryPolicy(1), RetryPolicy(3)}

(***************************************************************************)
(* session.py: _sanitize_error_message.  A sanitized text is the words     *)
(* left after redaction and, when it was cut, the number of characters     *)
(* kept before the "..." that was appended.                                *)
(***************************************************************************)
\* re.sub(pattern, "[REDACTED]", word, flags=re.IGNORECASE) over the patterns
Redact(w) ==
    CASE Lower(w) \in {"token=abc", "password=pw", "key=v", "secret=s", "auth=a"} -> "[REDACTED]"
      [] w \in {"/home/bob", "/Users/bob", "file:///etc/passwd"} -> "[REDACTED]"
      [] OTHER -> w

\* len() of one word
CharLen(w) ==
    CASE w = "[REDACTED]" -> 10
      [] w = "x250" -> 250
      [] w = "x200" -> 200
      [] w = "x198" -> 198
      [] w = "x190" -> 190
      [] w \in {"Network", "network", "NETWORK", "request", "timeout", "TIMEOUT"} -> 7
      [] w \in {"TEMPORARY_FAILURE"} -> 17
      [] w \in {"CONNECTION_ERROR"} -> 16
      [] w \in {"token=abc", "/home/bob"} -> 9
      [] w \in {"during", "failed"} -> 6
      [] w \in {"error", "after", "call:"} -> 5
      [] w \in {"Tool", "tool", "call", "auth"} -> 4
      [] w \in {"bad", "Nms"} -> 3
      [] OTHER -> 1

RECURSIVE TextLen(_)
\* len() of a text: its words and the blanks between them
TextLen(words) ==
    IF words = <<>> THEN 0
    ELSE IF Len(words) = 1 THEN CharLen(words[1])
    ELSE CharLen(Head(words)) + 1 + TextLen(Tail(words))

MaxErrorLen == 200

KeptErrorLen == 197

\* A sanitizer that redacts and never cuts
SanitizeErrorMessageUncut(error) ==
    [words |-> [i \in 1..Len(error.msg) |-> Redact(error.msg[i])], cut |-> None]

\* session.py 73-98: the patterns are replaced, then a text over 200
\* characters is cut to 197 and "..." appended
SanitizeErrorMessage(error) ==
    LET redacted == [i \in 1..Len(error.msg) |-> Redact(error.msg[i])]
    IN IF TextLen(redacted) > MaxErrorLen
       THEN [words |-> redacted, cut |-> Some(KeptErrorLen)]
       ELSE [words |-> redacted, cut |-> None]

\* len() of a sanitized text
SanitizedLen(m) == IF m.cut = None THEN TextLen(m.words) ELSE m.cut[1] + 3

(***************************************************************************)
(* session.py 338-348: _calculate_retry_delay.  backoff_multiplier is a    *)
(* float: it is kept as a fraction <<numerator, denominator>>, and the     *)
(* delay before int() as a numerator over denominator^attempt.  random is  *)
(* the value of random.random() in tenths.                                 *)
(***************************************************************************)
RECURSIVE Pow(_, _)
\* b ** e
Pow(b, e) == IF e = 0 THEN 1 ELSE b * Pow(b, e - 1)

Min(a, b) == IF a <= b THEN a ELSE b

Max(a, b) == IF a >= b THEN a ELSE b

\* types.py 74-84: the fields of RetryPolicy the delay is computed from
BackoffPolicy(base_delay_ms, max_delay_ms, backoff_multiplier, jitter) ==
    [base_delay_ms |-> base_delay_ms, max_delay_ms |-> max_delay_ms,
     backoff_multiplier |-> backoff_multiplier, jitter |-> jitter]

\* The attempt indices the delay is computed for
MaxAttemptIndex == 3

\* Valid policies: base_delay_ms >= 100, max_delay_ms >= 1000, and
\* backoff_multiplier 1.0, 1.5, 2.0 or 10.0
BackoffPolicies ==
    { BackoffPolicy(b, m, f, j) :
        b \in {100, 101, 2000}, m \in {1000, 30000},
        f \in {<<1, 1>>, <<3, 2>>, <<2, 1>>, <<10, 1>>}, j \in BOOLEAN }

\* random.random(), in tenths: 0.0 .. 0.9
RandomTenths == 0..9

\* min(base_delay_ms * backoff_multiplier**attempt, max_delay_ms), as a
\* numerator over backoff_multiplier's denominator ** attempt
BackoffNumerator(attempt, retry_policy) ==
    Min(retry_policy.base_delay_ms * Pow(retry_policy.backoff_multiplier[1], attempt),
        retry_policy.max_delay_ms * Pow(retry_policy.backoff_multiplier[2], attempt))

\* A delay that is returned as the jitter left it
CalculateRetryDelayUnclamped(attempt, retry_policy, random) ==
    LET d == Pow(retry_policy.backoff_multiplier[2], attempt)
        delay_n == BackoffNumerator(attempt, retry_policy)
    IN IF retry_policy.jitter
       THEN (delay_n * (20 + random)) \div (25 * d)
       ELSE delay_n \div d

\* 338-348: with jitter, delay + delay * 0.2 * (random * 2 - 1) is
\* delay * (20 + tenths) / 25, and int() drops its fraction; the last line
\* takes the larger of it and base_delay_ms, and int() again
CalculateRetryDelay(attempt, retry_policy, random) ==
    LET d == Pow(retry_policy.backoff_multiplier[2], attempt)
        delay_n == BackoffNumerator(attempt, retry_policy)
    IN IF retry_policy.jitter
       THEN Max((delay_n * (20 + random)) \div (25 * d), retry_policy.base_delay_ms)
       ELSE Max(delay_n, retry_policy.base_delay_ms * d) \div d

(***************************************************************************)
(* session.py: _should_retry.                                              *)
(***************************************************************************)
ShouldRetry(error, retry_policy) ==
    IF error.cls \in MCPTxErrorClasses
    THEN error.retryable
    ELSE \E tok \in retry_policy.retryable_errors : Contains(UpperStr(error.msg), tok)

(***************************************************************************)
(* session.py: _execute_tool_call / _execute_standard_mcp_call.  The send  *)
(* ends in a response, in the per-attempt timeout, or in an error raised   *)
(* by the underlying session; what the attempt then returns or raises.     *)
(***************************************************************************)
OkOutcomes == [kind : {"ok"}, response : Responses, error : {PlainError(<<>>)}]

TimeoutOutcome == [kind |-> "timeout", response |-> "r1", error |-> PlainError(<<>>)]

RaiseOutcome(error) == [kind |-> "raise", response |-> "r1", error |-> error]

\* The ends of a send the retry loop has to tell apart.
RetryOutcomes == OkOutcomes \cup {TimeoutOutcome} \cup {RaiseOutcome(e) : e \in RawErrors}

\* The ends of a send over an underlying session that raises long texts.
LongOutcomes ==
    {o \in OkOutcomes : o.response = "r1"} \cup {RaiseOutcome(e) : e \in LongErrors}

\* The ends of a send under concurrent callers.
SendOutcomes ==
    OkOutcomes \cup {TimeoutOutcome, RaiseOutcome(PlainError(<<"Network", "error">>))}

\* The exception an attempt raises (for an outcome that is not "ok").
AttemptError(enhanced, outcome, timeout_ms) ==
    IF outcome.kind = "timeout"
    THEN MCPTxTimeoutError(timeout_ms)
    ELSE IF enhanced
            /\ (Contains(LowerStr(outcome.error.msg), "connection")
                \/ Contains(LowerStr(outcome.error.msg), "network"))
         THEN MCPTxNetworkError(outcome.error)
         ELSE outcome.error

(***************************************************************************)
(* types.py: MCPTxResponse and MCPTxResult.                                *)
(***************************************************************************)
MCPTxResponse(ack, processed, duplicate, attempts, final_status, error_code, error_message) ==
    [ack |-> ack, processed |-> processed, duplicate |-> duplicate, attempts |-> attempts,
     final_status |-> final_status, error_code |-> error_code, error_message |-> error_message]

MCPTxResult(result, mcp_tx_meta) == [result |-> result, mcp_tx_meta |-> mcp_tx_meta]

\* A success that counts one attempt too many
SuccessResultOverCount(response, attempt) ==
    MCPTxResult(Some(response),
                MCPTxResponse(TRUE, TRUE, FALSE, attempt + 2, "completed", None, None))

\* A success that always reports one attempt
SuccessResultFirst(response, attempt) ==
    MCPTxResult(Some(response),
                MCPTxResponse(TRUE, TRUE, FALSE, 1, "completed", None, None))

\* session.py 233-238: the result of a successful attempt (attempt is 0-indexed)
SuccessResult(response, attempt) ==
    MCPTxResult(Some(response),
                MCPTxResponse(TRUE, TRUE, FALSE, attempt + 1, "completed", None, None))

\* session.py 272: getattr(last_error, "error_code", "UNKNOWN_ERROR")
ErrorCodeOf(error) == IF error.error_code = None THEN "UNKNOWN_ERROR" ELSE error.error_code[1]

\* A failure that is acknowledged
FailureResultAcked(last_error, retry_policy) ==
    MCPTxResult(None,
                MCPTxResponse(TRUE, FALSE, FALSE, retry_policy.max_attempts, "failed",
                              Some(ErrorCodeOf(last_error)),
                              Some(SanitizeErrorMessage(last_error))))

\* session.py 271-286: the result after the loop ended without a success
FailureResult(last_error, retry_policy) ==
    MCPTxResult(None,
                MCPTxResponse(FALSE, FALSE, FALSE, retry_policy.max_attempts, "failed",
                              Some(ErrorCodeOf(last_error)),
                              Some(SanitizeErrorMessage(last_error))))

\* A copy that counts one attempt
DuplicateResultOnce(cached_result) ==
    MCPTxResult(cached_result.result,
                MCPTxResponse(cached_result.mcp_tx_meta.ack,
                              cached_result.mcp_tx_meta.processed,
                              TRUE,
                              1,
                              cached_result.mcp_tx_meta.final_status,
                              cached_result.mcp_tx_meta.error_code,
                              cached_result.mcp_tx_meta.error_message))

\* session.py 361-370: the copy of a cached result handed to a duplicate call
DuplicateResult(cached_result) ==
    MCPTxResult(cached_result.result,
                MCPTxResponse(cached_result.mcp_tx_meta.ack,
                              cached_result.mcp_tx_meta.processed,
                              TRUE,
                              cached_result.mcp_tx_meta.attempts,
                              cached_result.mcp_tx_meta.final_status,
                              cached_result.mcp_tx_meta.error_code,
                              cached_result.mcp_tx_meta.error_message))

(***************************************************************************)
(* session.py: the deduplication cache, a dict in insertion order: a tuple *)
(* of entries [key, result, timestamp, policy_max].  policy_max is not in  *)
(* the code: it records max_attempts of the policy of the storing call.    *)
(***************************************************************************)
CacheIndex(c, k) == IF \E i \in 1..Len(c) : c[i].key = k
                    THEN CHOOSE i \in 1..Len(c) : c[i].key = k
                    ELSE 0

CacheHas(c, k) == CacheIndex(c, k) # 0

\* A read that takes the first entry whatever its key
CacheGetFirst(c, k) == c[1]

CacheGet(c, k) == c[CacheIndex(c, k)]

\* del d[k]
CacheDel(c, k) ==
    LET i == CacheIndex(c, k)
    IN IF i = 0 THEN c ELSE SubSeq(c, 1, i - 1) \o SubSeq(c, i + 1, Len(c))

\* A put that adds an entry even when the key is there
CachePutAppend(c, e) == Append(c, e)

\* d[k] = v: an existing key keeps its place, a new one goes last
CachePut(c, e) ==
    LET i == CacheIndex(c, e.key)
    IN IF i = 0 THEN Append(c, e) ELSE [c EXCEPT ![i] = e]

\* A window that shuts its last instant out
EntryValidStrict(timestamp, current_time) == timestamp > current_time - DedupWindow

\* session.py 359: timestamp >= current_time - window
EntryValid(timestamp, current_time) == timestamp >= current_time - DedupWindow

\* A lookup that never finds an entry
GetCachedResultNever(c, k, current_time) == None

\* session.py 350-375: _get_cached_result: the result handed out, or None
GetCachedResult(c, k, current_time) ==
    IF CacheHas(c, k) /\ EntryValid(CacheGet(c, k).timestamp, current_time)
    THEN Some(DuplicateResult(CacheGet(c, k).result))
    ELSE None

\* A lookup that counts the window of an entry from its last read
CacheAfterGetRefreshing(c, k, current_time) ==
    IF CacheHas(c, k)
    THEN IF EntryValid(CacheGet(c, k).timestamp, current_time)
         THEN [c EXCEPT ![CacheIndex(c, k)].timestamp = current_time]
         ELSE CacheDel(c, k)
    ELSE c

\* session.py 371-373: the cache after _get_cached_result (an expired entry is deleted)
CacheAfterGet(c, k, current_time) ==
    IF CacheHas(c, k) /\ ~EntryValid(CacheGet(c, k).timestamp, current_time)
    THEN CacheDel(c, k)
    ELSE c

RECURSIVE DropExpired(_, _)
\* session.py 383-386: delete the entries with timestamp < cutoff
DropExpired(c, current_time) ==
    IF c = <<>> THEN <<>>
    ELSE IF Head(c).timestamp < current_time - DedupWindow
         THEN DropExpired(Tail(c), current_time)
         ELSE <<Head(c)>> \o DropExpired(Tail(c), current_time)

\* A sort that puts the newest entry first
NewestIndex(c) ==
    CHOOSE i \in 1..Len(c) :
        \A j \in 1..Len(c) :
            c[i].timestamp > c[j].timestamp \/ (c[i].timestamp = c[j].timestamp /\ i >= j)

\* The first entry of a stable sort by timestamp: the oldest, the earliest
\* inserted among equally old ones.
OldestIndex(c) ==
    CHOOSE i \in 1..Len(c) :
        \A j \in 1..Len(c) :
            c[i].timestamp < c[j].timestamp \/ (c[i].timestamp = c[j].timestamp /\ i <= j)

RECURSIVE DropOldest(_, _)
\* session.py 391-396: delete the first n entries of sorted(items, key=timestamp)
DropOldest(c, n) ==
    IF n = 0 \/ c = <<>> THEN c
    ELSE DropOldest(CacheDel(c, c[OldestIndex(c)].key), n - 1)

\* session.py 388-396: the trim of a cache that has grown past cap entries
TrimCacheOver(c, cap, n) == IF Len(c) > cap THEN DropOldest(c, n) ELSE c

TrimCache(c) == TrimCacheOver(c, CacheLimit, TrimCount)

\* session.py 377-396: _cache_result for a cache of cap entries that is
\* trimmed by n entries
CacheResultOver(c, k, result, policy_max, current_time, cap, n) ==
    TrimCacheOver(DropExpired(CachePut(c, [key |-> k, result |-> result,
                                           timestamp |-> current_time,
                                           policy_max |-> policy_max]),
                              current_time),
                  cap, n)

\* session.py 377-396: _cache_result
CacheResult(c, k, result, policy_max, current_time) ==
    CacheResultOver(c, k, result, policy_max, current_time, CacheLimit, TrimCount)

(***************************************************************************)
(* session.py 350-396: the deduplication cache on its own, with room for   *)
(* more than one entry: results are stored, keys are looked up, the clock  *)
(* advances.  `last` is not in the code: it records, for every key, the    *)
(* result stored last under the key and the time of that store.            *)
(***************************************************************************)
StoreCap == 2

StoreTrim == 1

K3 == <<"k", "a">>

StoreKeys == {<<"k", "1">>, <<"k", "2">>, K3}

StoreResults == {SuccessResult(r, 0) : r \in Responses}

\* What the last operation on the cache was: its kind, its key, the result
\* it stored, what the lookup returned, whether the store found the same
\* result under its key
StoreOp(kind, key, result, got, again) ==
    [kind |-> kind, key |-> key, result |-> result, got |-> got, again |-> again]

\* session.py 58: an empty cache at time 0, nothing stored or looked up yet
NoStore ==
    [cache |-> <<>>, now |-> 0, last |-> [k \in StoreKeys |-> None], op |-> None]

(***************************************************************************)
(* session.py 135-174: the inputs of call_tool and their validation.       *)
(***************************************************************************)
NameChars == {"a", "1", "_", "-", " ", "@"}

Names == {<<>>} \cup {<<x>> : x \in NameChars} \cup {<<x, y>> : x \in NameChars, y \in NameChars}

K1 == <<"k", "1">>

K2 == <<"k", "2">>

Keys == {K1, K2}

MaxTimeoutMs == 600000

BaseInput ==
    [name |-> <<"a", "_", "1">>,
     arguments |-> Some([type |-> "dict", items |-> {"x"}]),
     idempotency_key |-> None,
     timeout_ms |-> None,
     retry_policy |-> None]

\* Each field of a call varied alone around a well-formed call: the calls
\* validation has to tell apart.
FieldInputs ==
    {[BaseInput EXCEPT !.name = n] : n \in Names}
    \cup {[BaseInput EXCEPT !.arguments = a] : a \in {None, Some([type |-> "dict", items |-> {}]), Some([type |-> "str"])}}
    \cup {[BaseInput EXCEPT !.idempotency_key = Some(k)] : k \in {<<>>, <<" ">>, <<" ", " ">>}}
    \cup {[BaseInput EXCEPT !.timeout_ms = Some(t)] :
            t \in {-1, 0, 1, MaxTimeoutMs, MaxTimeoutMs + 1, 7300000}}

\* The calls of concurrent callers: with and without a key, the session's policy.
Inputs ==
    {[BaseInput EXCEPT !.idempotency_key = k] : k \in {None} \cup {Some(x) : x \in Keys}}

\* The calls of a single caller that tries every field: the well-formed call,
\* with and without a key, and each field varied alone
FieldCalls ==
    {BaseInput, [BaseInput EXCEPT !.idempotency_key = Some(K1)]} \cup FieldInputs

\* The calls of a single caller: with and without a key, every policy.
RetryInputs ==
    {[BaseInput EXCEPT !.idempotency_key = k, !.retry_policy = rp] :
        k \in {None, Some(K1)},
        rp \in {None} \cup {Some(x) : x \in CallerPolicies}}

\* A validation that lets a timeout of 0 through
ValidationFailsLax(inp) ==
    \/ Len(inp.name) = 0 \/ Len(Strip(inp.name)) = 0
    \/ ~IsAlnum(Replace(Replace(inp.name, "_", "a"), "-", "a"))
    \/ (inp.arguments # None /\ inp.arguments[1].type # "dict")
    \/ (inp.idempotency_key # None
        /\ (Len(inp.idempotency_key[1]) = 0 \/ Len(Strip(inp.idempotency_key[1])) = 0))
    \/ (inp.timeout_ms # None
        /\ (inp.timeout_ms[1] < 0 \/ inp.timeout_ms[1] > MaxTimeoutMs))

\* session.py 160-174: TRUE iff call_tool raises ValueError
ValidationFails(inp) ==
    \/ Len(inp.name) = 0 \/ Len(Strip(inp.name)) = 0
    \/ ~IsAlnum(Replace(Replace(inp.name, "_", "a"), "-", "a"))
    \/ (inp.arguments # None /\ inp.arguments[1].type # "dict")
    \/ (inp.idempotency_key # None
        /\ (Len(inp.idempotency_key[1]) = 0 \/ Len(Strip(inp.idempotency_key[1])) = 0))
    \/ (inp.timeout_ms # None
        /\ (inp.timeout_ms[1] <= 0 \/ inp.timeout_ms[1] > MaxTimeoutMs))

\* session.py 177: retry_policy or self.config.retry_policy
EffectiveRetryPolicy(inp) ==
    IF inp.retry_policy # None THEN inp.retry_policy[1] ELSE ConfigRetryPolicy

\* A session that runs every call under its own default timeout
EffectiveTimeoutFixed(inp) == DefaultTimeoutMs

\* session.py 178: timeout_ms or self.config.default_timeout_ms
EffectiveTimeout(inp) ==
    IF inp.timeout_ms # None /\ inp.timeout_ms[1] # 0 THEN inp.timeout_ms[1] ELSE DefaultTimeoutMs

\* session.py 181, 241: `if idempotency_key:`
KeyGiven(key) == key # None /\ Len(key[1]) > 0

(***************************************************************************)
(* fastmcp_tx.py 28-59: the registry's names and entries.                  *)
(***************************************************************************)
\* ToolRegistry(max_tools)
MaxTools == 2

ToolNames == {<<"a">>, <<"1">>, <<"a", "1">>}

\* An idempotency_key_generator in the manner of the tests: it reads a field
\* of the arguments and raises KeyError when the field is missing
GenByField == "by_field"

\* register_tool's retry_policy, idempotency_key_generator and timeout_ms
ToolEntry(retry_policy, idempotency_key_generator, timeout_ms) ==
    [retry_policy |-> retry_policy,
     idempotency_key_generator |-> idempotency_key_generator,
     timeout_ms |-> timeout_ms]

\* The entries the tools are registered with: nothing set, everything set,
\* only a generator
ToolEntries ==
    { ToolEntry(None, None, None),
      ToolEntry(Some(RetryPolicy(3)), Some(GenByField), Some(15000)),
      ToolEntry(None, Some(GenByField), None) }

(***************************************************************************)
(* The state of one session and of the callers using it.                   *)
(***************************************************************************)
VARIABLES
    pc,              \* where each caller is: idle, acquire, sending, sleeping, returned, raised, cancelled
    call,            \* the running call's idempotency_key and effective retry_policy
    attempt,         \* the loop variable of _call_tool_with_retry (0-indexed)
    enhanced,        \* whether the attempt in flight took the MCP-Tx path of _execute_tool_call
    res,             \* what call_tool returned to the caller
    sends,           \* how many send_request calls the running call has made
    all_retryable,   \* whether every failed attempt of the call so far was retryable
    sem,             \* _request_semaphore: the units available
    active_requests, \* _active_requests: request_id -> tracker
    cache,           \* _deduplication_cache
    now,             \* datetime.utcnow()
    mcp_tx_enabled,  \* _mcp_tx_enabled
    server_capabilities, \* _server_capabilities
    produced_max,    \* max_attempts of the policy of the call that produced res
    removed_expired, \* whether the running call's lookup deleted an expired entry
    close_pc,        \* where close() is: idle, grace (the 0.1 s sleep), closing
    closed,          \* how many times close() has returned
    underlying_closes, \* how many times mcp_session.close() was invoked
    fpc,             \* where each invocation of FastMCPTx.initialize is
    initialized,     \* FastMCPTx._initialized
    init_lock,       \* FastMCPTx._init_lock: its holder, if any
    handshakes,      \* how many times the facade invoked MCPTxSession.initialize
    request,         \* the request each caller's send_request is working on, if any
    tools,           \* ToolRegistry._tools: name -> entry
    registered,      \* how the last register_tool ended
    held,            \* the entry a caller got from get_tool and may write to
    invoked,         \* how the last FastMCPTx.call_tool went
    mcp_tx_session,  \* FastMCPTx._mcp_tx_session: the session object made last, if any
    store,           \* a dedup cache on its own: its entries, its clock, its last operation
    delay,           \* the last _calculate_retry_delay: its inputs and its value
    tracker_log      \* the statuses the running call's tracker was given, in order

vars == <<pc, call, attempt, enhanced, res, sends, all_retryable, sem, active_requests,
          cache, now, mcp_tx_enabled, server_capabilities, produced_max,
          removed_expired, close_pc, closed, underlying_closes,
          fpc, initialized, init_lock, handshakes, request,
          tools, registered, held, invoked, mcp_tx_session, store, delay, tracker_log>>

\* close() and the facade: what the session's own calls leave alone
close_vars == <<close_pc, closed, underlying_closes>>

facade_vars == <<fpc, initialized, init_lock, handshakes, mcp_tx_session>>

\* The functions looked at on their own: what every step of the session, the
\* facade and the registry leaves alone
probe_vars == <<store, delay>>

\* The registry and the facade's invoke: what the session and initialize leave alone
registry_vars == <<tools, registered, held, invoked>>

NoCall ==
    [idempotency_key |-> None, retry_policy |-> ConfigRetryPolicy,
     name |-> <<>>, arguments |-> None, timeout_ms |-> DefaultTimeoutMs]

NoResult == <<>>

\* types.py 175-192: RequestTracker (the fields the session writes)
RequestTracker(status, attempts, last_error) ==
    [status |-> status, attempts |-> attempts, last_error |-> last_error]

Init ==
    /\ pc = [p \in Procs |-> "idle"]
    /\ call = [p \in Procs |-> NoCall]
    /\ attempt = [p \in Procs |-> 0]
    /\ enhanced = [p \in Procs |-> FALSE]
    /\ res = [p \in Procs |-> NoResult]
    /\ sends = [p \in Procs |-> 0]
    /\ all_retryable = [p \in Procs |-> TRUE]
    /\ sem = MaxConcurrentRequests
    /\ active_requests = [p \in Procs |-> None]
    /\ cache = <<>>
    /\ now = 0
    /\ mcp_tx_enabled = FALSE
    /\ server_capabilities = {}
    /\ produced_max = [p \in Procs |-> 0]
    /\ removed_expired = [p \in Procs |-> FALSE]
    /\ close_pc = "idle"
    /\ closed = 0
    /\ underlying_closes = 0
    /\ fpc = [i \in Invokers |-> "idle"]
    /\ initialized = FALSE
    /\ init_lock = None
    /\ handshakes = 0
    /\ request = [p \in Procs |-> None]
    /\ tools = [n \in ToolNames |-> None]
    /\ registered = None
    /\ held = None
    /\ invoked = None
    /\ mcp_tx_session = None
    /\ store = NoStore
    /\ delay = None
    /\ tracker_log = [p \in Procs |-> <<>>]

(***************************************************************************)
(* session.py 100-133: initialize.  The handshake result either has no     *)
(* capabilities, or capabilities whose experimental mapping is absent,     *)
(* empty, or holds the listed keys.                                        *)
(***************************************************************************)
HandshakeResults ==
    { [capabilities |-> None],
      [capabilities |-> Some([experimental |-> None])],
      [capabilities |-> Some([experimental |-> Some({})])],
      [capabilities |-> Some([experimental |-> Some({"mcp_tx"})])] }

\* session.py 121-123: the experimental mapping the session looks into, if any
ServerExperimental(result) ==
    IF result.capabilities # None
       /\ result.capabilities[1].experimental # None
       /\ result.capabilities[1].experimental[1] # {}
    THEN Some(result.capabilities[1].experimental[1])
    ELSE None

\* session.py 120-131: what initialize does with the handshake result
InitializeEffect(result) ==
    /\ server_capabilities' =
           IF ServerExperimental(result) # None
           THEN ServerExperimental(result)[1] ELSE server_capabilities
    /\ mcp_tx_enabled' =
           IF ServerExperimental(result) # None /\ "mcp_tx" \in ServerExperimental(result)[1]
           THEN TRUE ELSE mcp_tx_enabled

SessionInitialize(result) ==
    /\ InitializeEffect(result)
    /\ UNCHANGED <<pc, call, attempt, enhanced, res, sends, all_retryable, sem,
                   active_requests, cache, now, produced_max>>
    /\ UNCHANGED <<removed_expired, close_vars, probe_vars, facade_vars, registry_vars, request,
                   tracker_log>>

\* A call that takes its cached result only while the gate has a free unit
CallToolGated(p, inp) ==
    /\ pc[p] = "idle"
    /\ IF ValidationFails(inp)
       THEN /\ pc' = [pc EXCEPT ![p] = "raised"]
            /\ UNCHANGED <<call, res, cache, produced_max, removed_expired>>
       ELSE LET key == inp.idempotency_key
                cached_result == IF KeyGiven(key)
                                 THEN GetCachedResult(cache, key[1], now) ELSE None
            IN /\ call' = [call EXCEPT ![p] = [idempotency_key |-> key,
                                               retry_policy |-> EffectiveRetryPolicy(inp),
                                               name |-> inp.name,
                                               arguments |-> inp.arguments,
                                               timeout_ms |-> EffectiveTimeout(inp)]]
               /\ cache' = IF KeyGiven(key) THEN CacheAfterGet(cache, key[1], now) ELSE cache
               /\ removed_expired' =
                      [removed_expired EXCEPT
                          ![p] = KeyGiven(key) /\ CacheAfterGet(cache, key[1], now) # cache]
               /\ IF cached_result # None
                  THEN /\ sem > 0
                       /\ pc' = [pc EXCEPT ![p] = "returned"]
                       /\ res' = [res EXCEPT ![p] = cached_result[1]]
                       /\ produced_max' =
                              [produced_max EXCEPT ![p] = CacheGet(cache, key[1]).policy_max]
                  ELSE /\ pc' = [pc EXCEPT ![p] = "acquire"]
                       /\ UNCHANGED <<res, produced_max>>
    /\ UNCHANGED <<attempt, enhanced, sends, all_retryable, sem, active_requests, now,
                   mcp_tx_enabled, server_capabilities, request, tracker_log>>
    /\ UNCHANGED <<close_vars, probe_vars, facade_vars, tools, registered, held>>

(***************************************************************************)
(* session.py 135-191: call_tool up to its first suspension: validation,   *)
(* the effective policy, the cache lookup; then the wait for a unit of the *)
(* semaphore.                                                              *)
(***************************************************************************)
CallTool(p, inp) ==
    /\ pc[p] = "idle"
    /\ IF ValidationFails(inp)
       THEN /\ pc' = [pc EXCEPT ![p] = "raised"]
            /\ UNCHANGED <<call, res, cache, produced_max, removed_expired>>
       ELSE LET key == inp.idempotency_key
                cached_result == IF KeyGiven(key)
                                 THEN GetCachedResult(cache, key[1], now) ELSE None
            IN /\ call' = [call EXCEPT ![p] = [idempotency_key |-> key,
                                               retry_policy |-> EffectiveRetryPolicy(inp),
                                               name |-> inp.name,
                                               arguments |-> inp.arguments,
                                               timeout_ms |-> EffectiveTimeout(inp)]]
               /\ cache' = IF KeyGiven(key) THEN CacheAfterGet(cache, key[1], now) ELSE cache
               /\ removed_expired' =
                      [removed_expired EXCEPT
                          ![p] = KeyGiven(key) /\ CacheAfterGet(cache, key[1], now) # cache]
               /\ IF cached_result # None
                  THEN /\ pc' = [pc EXCEPT ![p] = "returned"]
                       /\ res' = [res EXCEPT ![p] = cached_result[1]]
                       /\ produced_max' =
                              [produced_max EXCEPT ![p] = CacheGet(cache, key[1]).policy_max]
                  ELSE /\ pc' = [pc EXCEPT ![p] = "acquire"]
                       /\ UNCHANGED <<res, produced_max>>
    /\ UNCHANGED <<attempt, enhanced, sends, all_retryable, sem, active_requests, now,
                   mcp_tx_enabled, server_capabilities, request, tracker_log>>
    /\ UNCHANGED <<close_vars, probe_vars, facade_vars, tools, registered, held>>

\* A semaphore that lets every caller through
SemaphoreFreeAlways(value) == TRUE

\* anyio.Semaphore: a unit can be taken
SemaphoreFree(value) == value > 0

\* session.py 219-222, 249; types.py 187-192: the call writes to its tracker
\* object; the map shows it only while the map still holds the tracker (close
\* empties the map under running calls)
UpdateTracker(slot, status, attempts, error) ==
    IF slot = None
    THEN None
    ELSE Some(RequestTracker(status, attempts,
                             IF error = None THEN slot[1].last_error ELSE error))

\* types.py 38-54: MCPTxMeta.to_dict, the fields that are not None
MCPTxMetaDict(request_id, idempotency_key, retry_count, timeout_ms) ==
    LET always == [request_id |-> request_id, expect_ack |-> TRUE,
                   retry_count |-> retry_count, timeout_ms |-> timeout_ms]
    IN IF idempotency_key = None
       THEN always
       ELSE [k \in DOMAIN always \cup {"idempotency_key"} |->
                IF k = "idempotency_key" THEN idempotency_key[1] ELSE always[k]]

\* session.py 299, 320: `arguments or {}`
ArgumentsOrEmpty(arguments) ==
    IF arguments = None \/ arguments[1].items = {}
    THEN [type |-> "dict", items |-> {}]
    ELSE arguments[1]

\* session.py 320: the request of the standard path
StandardRequest(name, arguments) ==
    [method |-> "tools/call",
     params |-> [name |-> name, arguments |-> ArgumentsOrEmpty(arguments)]]

\* session.py 297-300: the request of the MCP-Tx path
EnhancedRequest(name, arguments, meta) ==
    [method |-> "tools/call",
     params |-> [name |-> name, arguments |-> ArgumentsOrEmpty(arguments),
                 _meta |-> [mcp_tx |-> meta]]]

\* A send that never attaches the metadata
RequestOfBare(p, a) == StandardRequest(call[p].name, call[p].arguments)

\* A send whose metadata always counts the first attempt
RequestOfFirstCount(p, a) ==
    IF mcp_tx_enabled
    THEN EnhancedRequest(call[p].name, call[p].arguments,
                         MCPTxMetaDict(p, call[p].idempotency_key, 0, call[p].timeout_ms))
    ELSE StandardRequest(call[p].name, call[p].arguments)

\* A tracker that tells a timeout from the other failures
FailedStatusByKind(error) ==
    IF error.cls = "MCPTxTimeoutError" THEN "timeout" ELSE "failed"

\* session.py 248, 265: the status update_status is given for a failed attempt
FailedStatus(error) == "failed"

\* session.py 292-300, 320: the request _execute_tool_call builds
RequestOf(p, a) ==
    IF mcp_tx_enabled
    THEN EnhancedRequest(call[p].name, call[p].arguments,
                         MCPTxMetaDict(p, call[p].idempotency_key, a, call[p].timeout_ms))
    ELSE StandardRequest(call[p].name, call[p].arguments)

\* session.py 205-228, 288-305: the head of one loop iteration, up to the send;
\* the tracker is made Pending before the first one, and each one makes it Sent
BeginAttempt(p, a, tracker) ==
    /\ attempt' = [attempt EXCEPT ![p] = a]
    /\ request' = [request EXCEPT ![p] = Some(RequestOf(p, a))]
    /\ active_requests' = [active_requests EXCEPT ![p] = tracker]
    /\ enhanced' = [enhanced EXCEPT ![p] = mcp_tx_enabled]
    /\ sends' = [sends EXCEPT ![p] = @ + 1]
    /\ tracker_log' = [tracker_log EXCEPT
                          ![p] = IF a = 0 THEN <<"pending", "sent">> ELSE Append(@, "sent")]
    /\ pc' = [pc EXCEPT ![p] = "sending"]

\* session.py 188, 202-228: the semaphore is acquired, the tracker registered,
\* the first attempt sent
Acquire(p) ==
    /\ pc[p] = "acquire"
    /\ SemaphoreFree(sem)
    /\ sem' = sem - 1
    /\ BeginAttempt(p, 0, Some(RequestTracker("sent", 1, None)))
    /\ UNCHANGED <<call, res, all_retryable, cache, now, mcp_tx_enabled,
                   server_capabilities, produced_max>>
    /\ UNCHANGED <<removed_expired, close_vars, probe_vars, facade_vars, registry_vars>>

\* A loop that sleeps after every retryable failure
RetryFollowsAlways(a, error, retry_policy) == ShouldRetry(error, retry_policy)

\* A loop that makes one attempt more than the policy allows
RetryFollowsOnceMore(a, error, retry_policy) ==
    a < retry_policy.max_attempts /\ ShouldRetry(error, retry_policy)

\* A loop that gives up one attempt early
RetryFollowsShort(a, error, retry_policy) ==
    a < retry_policy.max_attempts - 2 /\ ShouldRetry(error, retry_policy)

\* session.py 253-254: another attempt follows this failed one
RetryFollows(a, error, retry_policy) ==
    a < retry_policy.max_attempts - 1 /\ ShouldRetry(error, retry_policy)

\* session.py 228-286, 188-191: the send has ended; the rest of the iteration
\* and, when the call is over, the cleanup, the release and the return.  A
\* failed attempt makes the tracker Failed at 248; when no attempt follows,
\* 265 gives it the same status once more.
SendEnds(p, outcome) ==
    /\ pc[p] = "sending"
    /\ LET policy == call[p].retry_policy
           key == call[p].idempotency_key
           error == AttemptError(enhanced[p], outcome, call[p].timeout_ms)
       IN IF outcome.kind = "ok"
          THEN /\ res' = [res EXCEPT ![p] = SuccessResult(outcome.response, attempt[p])]
               /\ cache' = IF KeyGiven(key)
                           THEN CacheResult(cache, key[1],
                                            SuccessResult(outcome.response, attempt[p]),
                                            policy.max_attempts, now)
                           ELSE cache
               /\ active_requests' = [active_requests EXCEPT ![p] = None]
               /\ sem' = sem + 1
               /\ pc' = [pc EXCEPT ![p] = "returned"]
               /\ produced_max' = [produced_max EXCEPT ![p] = policy.max_attempts]
               /\ attempt' = [attempt EXCEPT ![p] = 0]
               /\ enhanced' = [enhanced EXCEPT ![p] = FALSE]
               /\ removed_expired' = [removed_expired EXCEPT ![p] = FALSE]
               /\ tracker_log' = [tracker_log EXCEPT ![p] = Append(@, "acknowledged")]
               /\ UNCHANGED all_retryable
          ELSE IF RetryFollows(attempt[p], error, policy)
          THEN /\ active_requests' =
                      [active_requests EXCEPT
                          ![p] = UpdateTracker(@, FailedStatus(error), attempt[p] + 1,
                                               Some(SanitizeErrorMessage(error)))]
               /\ tracker_log' = [tracker_log EXCEPT ![p] = Append(@, FailedStatus(error))]
               /\ pc' = [pc EXCEPT ![p] = "sleeping"]
               /\ enhanced' = [enhanced EXCEPT ![p] = FALSE]
               /\ UNCHANGED <<res, cache, sem, produced_max, all_retryable, attempt,
                              removed_expired>>
          ELSE /\ res' = [res EXCEPT ![p] = FailureResult(error, policy)]
               /\ all_retryable' =
                      [all_retryable EXCEPT ![p] = @ /\ ShouldRetry(error, policy)]
               /\ active_requests' = [active_requests EXCEPT ![p] = None]
               /\ sem' = sem + 1
               /\ pc' = [pc EXCEPT ![p] = "returned"]
               /\ produced_max' = [produced_max EXCEPT ![p] = policy.max_attempts]
               /\ attempt' = [attempt EXCEPT ![p] = 0]
               /\ enhanced' = [enhanced EXCEPT ![p] = FALSE]
               /\ removed_expired' = [removed_expired EXCEPT ![p] = FALSE]
               /\ tracker_log' =
                      [tracker_log EXCEPT
                          ![p] = @ \o <<FailedStatus(error), FailedStatus(error)>>]
               /\ UNCHANGED cache
    /\ request' = [request EXCEPT ![p] = None]
    /\ UNCHANGED <<call, sends, now, mcp_tx_enabled, server_capabilities>>
    /\ UNCHANGED <<close_vars, probe_vars, facade_vars, registry_vars>>

\* session.py 257-258, 217-228: the backoff sleep is over, the next attempt is sent
Wake(p) ==
    /\ pc[p] = "sleeping"
    /\ BeginAttempt(p, attempt[p] + 1,
                    UpdateTracker(active_requests[p], "sent", attempt[p] + 2, None))
    /\ UNCHANGED <<call, res, all_retryable, sem, cache, now, mcp_tx_enabled,
                   server_capabilities, produced_max>>
    /\ UNCHANGED <<removed_expired, close_vars, probe_vars, facade_vars, registry_vars>>

\* What a cancellation leaves of the call: the position, the loop locals
CancelledCall(p) ==
    /\ pc' = [pc EXCEPT ![p] = "cancelled"]
    /\ attempt' = [attempt EXCEPT ![p] = 0]
    /\ enhanced' = [enhanced EXCEPT ![p] = FALSE]
    /\ request' = [request EXCEPT ![p] = None]

\* A cancellation that leaves the tracker in the map
CancelKeepingTracker(p) ==
    /\ pc[p] \in {"acquire", "sending", "sleeping"}
    /\ CancelledCall(p)
    /\ sem' = IF pc[p] = "acquire" THEN sem ELSE sem + 1
    /\ UNCHANGED <<call, res, sends, all_retryable, cache, now, mcp_tx_enabled,
                   server_capabilities, produced_max, removed_expired, active_requests>>
    /\ UNCHANGED <<close_vars, probe_vars, facade_vars, registry_vars, tracker_log>>

\* A cancellation that keeps the unit of the semaphore
CancelHoldingSlot(p) ==
    /\ pc[p] \in {"acquire", "sending", "sleeping"}
    /\ CancelledCall(p)
    /\ active_requests' = [active_requests EXCEPT ![p] = None]
    /\ UNCHANGED <<call, res, sends, all_retryable, cache, now, mcp_tx_enabled,
                   server_capabilities, produced_max, removed_expired, sem>>
    /\ UNCHANGED <<close_vars, probe_vars, facade_vars, registry_vars, tracker_log>>

\* A cancellation that stores what it has in the cache
CancelStoring(p) ==
    /\ pc[p] \in {"acquire", "sending", "sleeping"}
    /\ CancelledCall(p)
    /\ active_requests' = [active_requests EXCEPT ![p] = None]
    /\ sem' = IF pc[p] = "acquire" THEN sem ELSE sem + 1
    /\ cache' = IF KeyGiven(call[p].idempotency_key)
                THEN CacheResult(cache, call[p].idempotency_key[1],
                                 FailureResult(PlainError(<<"cancelled">>), call[p].retry_policy),
                                 call[p].retry_policy.max_attempts, now)
                ELSE cache
    /\ UNCHANGED <<call, res, sends, all_retryable, now, mcp_tx_enabled,
                   server_capabilities, produced_max, removed_expired>>
    /\ UNCHANGED <<close_vars, probe_vars, facade_vars, registry_vars, tracker_log>>

\* session.py 187-191, 216-269: the caller cancels the call while it waits for
\* the semaphore, while its send is in flight or while it sleeps between
\* attempts.  The cancellation is no Exception: the except clause at 246 lets
\* it through, the finally at 267-269 removes the tracker, and the async with
\* at 188 gives the unit back when the call held one.
Cancel(p) ==
    /\ pc[p] \in {"acquire", "sending", "sleeping"}
    /\ CancelledCall(p)
    /\ active_requests' = [active_requests EXCEPT ![p] = None]
    /\ sem' = IF pc[p] = "acquire" THEN sem ELSE sem + 1
    /\ UNCHANGED <<call, res, sends, all_retryable, cache, now, mcp_tx_enabled,
                   server_capabilities, produced_max, removed_expired>>
    /\ UNCHANGED <<close_vars, probe_vars, facade_vars, registry_vars, tracker_log>>

(***************************************************************************)
(* session.py 408-426: close.  has_close says whether the underlying       *)
(* session has a close method when close looks for it.                     *)
(***************************************************************************)
MaxCloses == 2

\* 422-424: both maps are emptied, close returns
CloseClears ==
    /\ active_requests' = [p \in Procs |-> None]
    /\ cache' = <<>>
    /\ closed' = closed + 1
    /\ close_pc' = "idle"

\* 418-424: the underlying session is closed if it can be, then the maps emptied
CloseUnderlying(has_close) ==
    IF has_close
    THEN /\ underlying_closes' = underlying_closes + 1
         /\ close_pc' = "closing"
         /\ UNCHANGED <<active_requests, cache, closed>>
    ELSE /\ CloseClears
         /\ UNCHANGED underlying_closes

\* What close leaves alone
close_frame == <<pc, call, attempt, enhanced, res, sends, all_retryable, sem, now,
                 mcp_tx_enabled, server_capabilities, produced_max, removed_expired,
                 request, tracker_log>>

\* 408-420: close is invoked; with active requests it first sleeps 0.1 s
CloseBegin(has_close) ==
    /\ close_pc = "idle"
    /\ closed < MaxCloses
    /\ IF \E p \in Procs : active_requests[p] # None
       THEN /\ close_pc' = "grace"
            /\ UNCHANGED <<active_requests, cache, closed, underlying_closes>>
       ELSE CloseUnderlying(has_close)
    /\ UNCHANGED <<close_frame, probe_vars, facade_vars, registry_vars>>

\* 416-420: the grace sleep is over
CloseGraceEnds(has_close) ==
    /\ close_pc = "grace"
    /\ CloseUnderlying(has_close)
    /\ UNCHANGED <<close_frame, probe_vars, facade_vars, registry_vars>>

\* 420-426: the underlying session's close has returned
CloseEnds ==
    /\ close_pc = "closing"
    /\ CloseClears
    /\ UNCHANGED <<underlying_closes, close_frame, probe_vars, facade_vars, registry_vars>>

\* A call started on a session on which no close has returned yet.
CallBeforeClose(p, inp) == closed = 0 /\ CallTool(p, inp) /\ UNCHANGED invoked

\* The caller has taken the result (or the ValueError) and may call again.
Reset(p) ==
    /\ pc[p] \in {"returned", "raised", "cancelled"}
    /\ pc' = [pc EXCEPT ![p] = "idle"]
    /\ call' = [call EXCEPT ![p] = NoCall]
    /\ attempt' = [attempt EXCEPT ![p] = 0]
    /\ enhanced' = [enhanced EXCEPT ![p] = FALSE]
    /\ res' = [res EXCEPT ![p] = NoResult]
    /\ sends' = [sends EXCEPT ![p] = 0]
    /\ all_retryable' = [all_retryable EXCEPT ![p] = TRUE]
    /\ produced_max' = [produced_max EXCEPT ![p] = 0]
    /\ removed_expired' = [removed_expired EXCEPT ![p] = FALSE]
    /\ tracker_log' = [tracker_log EXCEPT ![p] = <<>>]
    /\ UNCHANGED <<sem, active_requests, cache, now, mcp_tx_enabled, server_capabilities>>
    /\ UNCHANGED <<close_vars, probe_vars, facade_vars, registry_vars, request>>

\* The clock advances.
Tick ==
    /\ now < MaxTime
    /\ now' = now + 1
    /\ UNCHANGED <<pc, call, attempt, enhanced, res, sends, all_retryable, sem,
                   active_requests, cache, mcp_tx_enabled, server_capabilities, produced_max>>
    /\ UNCHANGED <<removed_expired, close_vars, probe_vars, facade_vars, registry_vars, request,
                   tracker_log>>

(***************************************************************************)
(* fastmcp_tx.py 129-143: FastMCPTx.initialize, the double-checked lock.   *)
(***************************************************************************)
\* What the facade's initialize leaves alone: the calls of the session
call_vars == <<pc, call, attempt, enhanced, res, sends, all_retryable, sem, active_requests,
               cache, now, produced_max, removed_expired, request, tracker_log>>

\* A locked region that does not look at the flag again
FacadeEnterUnchecked(i) ==
    /\ fpc[i] = "lock"
    /\ init_lock = None
    /\ init_lock' = Some(i)
    /\ handshakes' = handshakes + 1
    /\ mcp_tx_session' = Some(handshakes + 1)
    /\ fpc' = [fpc EXCEPT ![i] = "handshake"]
    /\ UNCHANGED <<initialized, mcp_tx_enabled, server_capabilities, call_vars, close_vars, probe_vars, registry_vars>>

\* 132-136: the check without the lock; an initialized facade returns at once
FacadeInitialize(i) ==
    /\ fpc[i] = "idle"
    /\ fpc' = [fpc EXCEPT ![i] = IF initialized THEN "done" ELSE "lock"]
    /\ UNCHANGED <<initialized, init_lock, handshakes, mcp_tx_session, mcp_tx_enabled, server_capabilities,
                   call_vars, close_vars, probe_vars, registry_vars>>

\* 136-141: the lock is taken; the check again; the session is made and its
\* initialize sends the handshake
FacadeEnter(i) ==
    /\ fpc[i] = "lock"
    /\ init_lock = None
    /\ IF initialized
       THEN /\ fpc' = [fpc EXCEPT ![i] = "done"]
            /\ UNCHANGED <<init_lock, handshakes, mcp_tx_session>>
       ELSE /\ init_lock' = Some(i)
            /\ handshakes' = handshakes + 1
            /\ mcp_tx_session' = Some(handshakes + 1)
            /\ fpc' = [fpc EXCEPT ![i] = "handshake"]
    /\ UNCHANGED <<initialized, mcp_tx_enabled, server_capabilities, call_vars, close_vars, probe_vars, registry_vars>>

\* 141-143: the handshake has returned; the flag is set, the lock released
FacadeHandshakeEnds(i, result) ==
    /\ fpc[i] = "handshake"
    /\ InitializeEffect(result)
    /\ initialized' = TRUE
    /\ init_lock' = None
    /\ fpc' = [fpc EXCEPT ![i] = "done"]
    /\ UNCHANGED <<handshakes, mcp_tx_session, call_vars, close_vars, probe_vars, registry_vars>>

\* The handshakes the server may fail before it answers one
MaxFailedHandshakes == 2

\* A failed handshake that leaves the lock with the task that held it
FacadeHandshakeFailsLocked(i) ==
    /\ fpc[i] = "handshake"
    /\ handshakes <= MaxFailedHandshakes
    /\ fpc' = [fpc EXCEPT ![i] = "failed"]
    /\ UNCHANGED <<initialized, init_lock, handshakes, mcp_tx_session, mcp_tx_enabled,
                   server_capabilities, call_vars, close_vars, probe_vars, registry_vars>>

\* 136-141, session.py 118: the handshake has raised; the exception leaves
\* MCPTxSession.initialize before it reads a result, the async with gives the
\* lock back, line 142 is not reached, and the session made at 140 stays
FacadeHandshakeFails(i) ==
    /\ fpc[i] = "handshake"
    /\ handshakes <= MaxFailedHandshakes
    /\ init_lock' = None
    /\ fpc' = [fpc EXCEPT ![i] = "failed"]
    /\ UNCHANGED <<initialized, handshakes, mcp_tx_session, mcp_tx_enabled,
                   server_capabilities, call_vars, close_vars, probe_vars, registry_vars>>

\* The task has the exception of initialize and may invoke it again.
FacadeCaught(i) ==
    /\ fpc[i] = "failed"
    /\ fpc' = [fpc EXCEPT ![i] = "idle"]
    /\ UNCHANGED <<initialized, init_lock, handshakes, mcp_tx_session, mcp_tx_enabled,
                   server_capabilities, call_vars, close_vars, probe_vars, registry_vars>>

(***************************************************************************)
(* fastmcp_tx.py 145-154: `async with app:`.  __aenter__ is initialize; a  *)
(* task at "done" is in the body of the statement.  Python invokes         *)
(* __aexit__ when the body is left, by its end or by an exception, and     *)
(* does not invoke it when __aenter__ raised.                              *)
(***************************************************************************)
\* The body is left; __aexit__ is invoked
ScopeBodyEnds(i, raised) ==
    /\ fpc[i] = "done"
    /\ fpc' = [fpc EXCEPT ![i] = IF raised THEN "aexit_raised" ELSE "aexit"]
    /\ UNCHANGED <<initialized, init_lock, handshakes, mcp_tx_session, mcp_tx_enabled,
                   server_capabilities, call_vars, close_vars, probe_vars, registry_vars>>

\* 152-153, session.py 69-71, 408-420: __aexit__ hands over to the session's
\* __aexit__, which is close(), when there is a session
ScopeClose(i, has_close) ==
    /\ fpc[i] \in {"aexit", "aexit_raised"}
    /\ close_pc = "idle"
    /\ IF mcp_tx_session = None
       THEN /\ fpc' = [fpc EXCEPT ![i] = IF @ = "aexit" THEN "exited" ELSE "exited_raised"]
            /\ UNCHANGED <<active_requests, cache, close_vars>>
       ELSE /\ fpc' = [fpc EXCEPT ![i] = IF @ = "aexit" THEN "closing" ELSE "closing_raised"]
            /\ IF \E p \in Procs : active_requests[p] # None
               THEN /\ close_pc' = "grace"
                    /\ UNCHANGED <<active_requests, cache, closed, underlying_closes>>
               ELSE CloseUnderlying(has_close)
    /\ UNCHANGED <<initialized, init_lock, handshakes, mcp_tx_session, close_frame,
                   probe_vars, registry_vars>>

\* 153-154: close() has returned; the statement is left (with the body's
\* exception, if it raised one)
ScopeLeft(i) ==
    /\ fpc[i] \in {"closing", "closing_raised"}
    /\ close_pc = "idle"
    /\ fpc' = [fpc EXCEPT ![i] = IF @ = "closing" THEN "exited" ELSE "exited_raised"]
    /\ UNCHANGED <<initialized, init_lock, handshakes, mcp_tx_session, mcp_tx_enabled,
                   server_capabilities, call_vars, close_vars, probe_vars, registry_vars>>

\* The task has its return and may invoke initialize again.
FacadeReturn(i) ==
    /\ fpc[i] = "done"
    /\ fpc' = [fpc EXCEPT ![i] = "idle"]
    /\ UNCHANGED <<initialized, init_lock, handshakes, mcp_tx_session, mcp_tx_enabled, server_capabilities,
                   call_vars, close_vars, probe_vars, registry_vars>>

(***************************************************************************)
(* fastmcp_tx.py 28-98: ToolRegistry.                                      *)
(***************************************************************************)
ToolCount == Cardinality({n \in ToolNames : tools[n] # None})

\* A register that replaces the entry of a name it already holds
RegisterToolReplacing(name, entry) ==
    /\ IF ToolCount >= MaxTools /\ tools[name] = None
       THEN /\ registered' = Some([name |-> name, outcome |-> "Registry full"])
            /\ UNCHANGED tools
       ELSE /\ tools' = [tools EXCEPT ![name] = Some(entry)]
            /\ registered' = Some([name |-> name, outcome |-> "ok"])
    /\ UNCHANGED <<held, invoked, call_vars, close_vars, probe_vars, facade_vars,
                   mcp_tx_enabled, server_capabilities>>

\* 35-59: register_tool
RegisterTool(name, entry) ==
    /\ IF ToolCount >= MaxTools
       THEN /\ registered' = Some([name |-> name, outcome |-> "Registry full"])
            /\ UNCHANGED tools
       ELSE IF tools[name] # None
       THEN /\ registered' = Some([name |-> name, outcome |-> "already registered"])
            /\ UNCHANGED tools
       ELSE /\ tools' = [tools EXCEPT ![name] = Some(entry)]
            /\ registered' = Some([name |-> name, outcome |-> "ok"])
    /\ UNCHANGED <<held, invoked, call_vars, close_vars, probe_vars, facade_vars,
                   mcp_tx_enabled, server_capabilities>>

\* What get_tool hands out: the entry (None for an unknown name) and what it
\* shares with the stored one: "nothing" (copy.deepcopy), "nested" (the
\* objects inside the entry), "all" (the stored entry itself)
Handout(name, shares) == [name |-> name, entry |-> tools[name], shares |-> shares]

\* A get_tool that copies the entry but not the objects in it
GetToolShallow(name) ==
    /\ held' = Some(Handout(name, "nested"))
    /\ UNCHANGED <<tools, registered, invoked, call_vars, close_vars, probe_vars, facade_vars,
                   mcp_tx_enabled, server_capabilities>>

\* 61-67: get_tool
GetTool(name) ==
    /\ held' = Some(Handout(name, "nothing"))
    /\ UNCHANGED <<tools, registered, invoked, call_vars, close_vars, probe_vars, facade_vars,
                   mcp_tx_enabled, server_capabilities>>

\* The caller writes a field of the entry it holds (config["timeout_ms"] = 9999)
MutateHeldField ==
    /\ held # None
    /\ held[1].entry # None
    /\ held[1].entry[1].timeout_ms # Some(9999)
    /\ LET written == Some([held[1].entry[1] EXCEPT !.timeout_ms = Some(9999)])
       IN /\ held' = Some([held[1] EXCEPT !.entry = written])
          /\ tools' = IF held[1].shares = "all"
                      THEN [tools EXCEPT ![held[1].name] = written]
                      ELSE tools
    /\ UNCHANGED <<registered, invoked, call_vars, close_vars, probe_vars, facade_vars,
                   mcp_tx_enabled, server_capabilities>>

\* The caller writes into an object of the entry it holds
\* (config["retry_policy"].max_attempts = 1)
MutateHeldPolicy ==
    /\ held # None
    /\ held[1].entry # None
    /\ held[1].entry[1].retry_policy \notin {None, Some(RetryPolicy(1))}
    /\ LET written == Some([held[1].entry[1] EXCEPT !.retry_policy = Some(RetryPolicy(1))])
       IN /\ held' = Some([held[1] EXCEPT !.entry = written])
          /\ tools' = IF held[1].shares \in {"all", "nested"} /\ tools[held[1].name] # None
                      THEN [tools EXCEPT ![held[1].name] =
                               Some([@[1] EXCEPT !.retry_policy = Some(RetryPolicy(1))])]
                      ELSE tools
    /\ UNCHANGED <<registered, invoked, call_vars, close_vars, probe_vars, facade_vars,
                   mcp_tx_enabled, server_capabilities>>

\* 73-85: get_tool_info, the fields read from the stored entry
GetToolInfo(name) ==
    IF tools[name] = None
    THEN None
    ELSE Some([name |-> name,
               has_retry_policy |-> tools[name][1].retry_policy # None,
               timeout_ms |-> tools[name][1].timeout_ms])

(***************************************************************************)
(* fastmcp_tx.py 216-269: FastMCPTx.call_tool.                             *)
(***************************************************************************)
\* The names, arguments and keys the facade is invoked with
FacadeNames == ToolNames \cup {<<"a", "a">>, <<" ">>}

FacadeArguments ==
    {None, Some([type |-> "dict", items |-> {}]), Some([type |-> "dict", items |-> {"x"}]),
     Some([type |-> "str"])}

FacadeKeys == {None, Some(K2)}

\* 237-246: TRUE iff the facade's own validation raises ValueError
FacadeValidationFails(name, arguments, idempotency_key) ==
    \/ Len(Strip(name)) = 0
    \/ (arguments # None /\ arguments[1].type # "dict")

\* 240-241: arguments = {} when None
FacadeArgumentsOf(arguments) ==
    IF arguments = None THEN Some([type |-> "dict", items |-> {}]) ELSE arguments

\* What the generator does with the arguments: a key, or an exception
GeneratorRaises(gen, arguments) == gen = GenByField /\ "x" \notin arguments[1].items

GeneratorValue(gen, arguments) == Some(K1)

\* A key resolution that lets the generator override an explicit key
ResolveKeyGeneratorFirst(entry, arguments, idempotency_key) ==
    IF entry.idempotency_key_generator # None
    THEN IF GeneratorRaises(entry.idempotency_key_generator[1], arguments)
         THEN idempotency_key
         ELSE GeneratorValue(entry.idempotency_key_generator[1], arguments)
    ELSE idempotency_key

\* 255-260: the key passed on to the session
ResolveKey(entry, arguments, idempotency_key) ==
    IF idempotency_key = None /\ entry.idempotency_key_generator # None
    THEN IF GeneratorRaises(entry.idempotency_key_generator[1], arguments)
         THEN None
         ELSE GeneratorValue(entry.idempotency_key_generator[1], arguments)
    ELSE idempotency_key

\* 256-258: whether the generator is invoked
GeneratorInvoked(entry, idempotency_key) ==
    idempotency_key = None /\ entry.idempotency_key_generator # None

\* 263-269: the parameters of the session's call_tool
DelegatedInput(name, arguments, entry, idempotency_key) ==
    [name |-> name,
     arguments |-> arguments,
     idempotency_key |-> ResolveKey(entry, arguments, idempotency_key),
     timeout_ms |-> entry.timeout_ms,
     retry_policy |-> entry.retry_policy]

\* What invoke leaves behind for the caller to see
Invocation(outcome, name, generator_invoked, generator_raised, passed) ==
    [outcome |-> outcome, name |-> name, generator_invoked |-> generator_invoked,
     generator_raised |-> generator_raised, passed |-> passed]

invoke_frame == <<call, attempt, enhanced, res, sends, all_retryable, sem, active_requests,
                  cache, now, produced_max, removed_expired, request, tracker_log, mcp_tx_enabled,
                  server_capabilities, close_vars, probe_vars, facade_vars, tools, registered, held>>

\* An invoke that looks the tool up before it looks at the flag
FacadeCallToolLookupFirst(p, name, arguments, idempotency_key) ==
    /\ pc[p] = "idle"
    /\ IF FacadeValidationFails(name, arguments, idempotency_key)
       THEN /\ invoked' = Some(Invocation("ValueError", name, FALSE, FALSE, None))
            /\ UNCHANGED <<pc, invoke_frame>>
       ELSE IF name \notin ToolNames \/ tools[name] = None
       THEN /\ invoked' = Some(Invocation("ValueError", name, FALSE, FALSE, None))
            /\ UNCHANGED <<pc, invoke_frame>>
       ELSE IF ~initialized \/ mcp_tx_session = None
       THEN /\ invoked' = Some(Invocation("RuntimeError", name, FALSE, FALSE, None))
            /\ UNCHANGED <<pc, invoke_frame>>
       ELSE LET entry == tools[name][1]
                args == FacadeArgumentsOf(arguments)
                inp == DelegatedInput(name, args, entry, idempotency_key)
            IN /\ invoked' = Some(Invocation("delegated", name,
                                             GeneratorInvoked(entry, idempotency_key),
                                             GeneratorInvoked(entry, idempotency_key)
                                                /\ GeneratorRaises(entry.idempotency_key_generator[1], args),
                                             Some(inp)))
               /\ CallTool(p, inp)

\* 216-269: call_tool of the facade, up to the first await inside the session
FacadeCallTool(p, name, arguments, idempotency_key) ==
    /\ pc[p] = "idle"
    /\ IF FacadeValidationFails(name, arguments, idempotency_key)
       THEN /\ invoked' = Some(Invocation("ValueError", name, FALSE, FALSE, None))
            /\ UNCHANGED <<pc, invoke_frame>>
       ELSE IF ~initialized \/ mcp_tx_session = None
       THEN /\ invoked' = Some(Invocation("RuntimeError", name, FALSE, FALSE, None))
            /\ UNCHANGED <<pc, invoke_frame>>
       ELSE IF name \notin ToolNames \/ tools[name] = None
       THEN /\ invoked' = Some(Invocation("ValueError", name, FALSE, FALSE, None))
            /\ UNCHANGED <<pc, invoke_frame>>
       ELSE LET entry == tools[name][1]
                args == FacadeArgumentsOf(arguments)
                inp == DelegatedInput(name, args, entry, idempotency_key)
            IN /\ invoked' = Some(Invocation("delegated", name,
                                             GeneratorInvoked(entry, idempotency_key),
                                             GeneratorInvoked(entry, idempotency_key)
                                                /\ GeneratorRaises(entry.idempotency_key_generator[1], args),
                                             Some(inp)))
               /\ CallTool(p, inp)

\* What the operations on the cache on its own leave alone
store_frame == <<call_vars, close_vars, facade_vars, registry_vars, mcp_tx_enabled,
                 server_capabilities, delay>>

\* session.py 377-396: _cache_result(k, result)
StoreResult(k, result) ==
    /\ store' = [cache |-> CacheResultOver(store.cache, k, result, 1, store.now,
                                           StoreCap, StoreTrim),
                 now |-> store.now,
                 last |-> [store.last EXCEPT
                              ![k] = Some([result |-> result, timestamp |-> store.now])],
                 op |-> Some(StoreOp("store", k, Some(result), None,
                                     CacheHas(store.cache, k)
                                        /\ CacheGet(store.cache, k).result = result))]
    /\ UNCHANGED store_frame

\* session.py 350-375: _get_cached_result(k)
LookupStore(k) ==
    /\ store' = [cache |-> CacheAfterGet(store.cache, k, store.now),
                 now |-> store.now,
                 last |-> store.last,
                 op |-> Some(StoreOp("lookup", k, None,
                                     GetCachedResult(store.cache, k, store.now), FALSE))]
    /\ UNCHANGED store_frame

\* datetime.utcnow() advances
TickStore ==
    /\ store.now < MaxTime
    /\ store' = [store EXCEPT !.now = @ + 1, !.op = None]
    /\ UNCHANGED store_frame

\* What the computation of a delay leaves alone
delay_frame == <<call_vars, close_vars, facade_vars, registry_vars, mcp_tx_enabled,
                 server_capabilities, store>>

\* session.py 255, 338-348: _calculate_retry_delay(a, retry_policy); a
\* policy without jitter draws no random number
CalculateDelay(a, retry_policy, random) ==
    /\ retry_policy.jitter \/ random = 0
    /\ delay' = Some([attempt |-> a, retry_policy |-> retry_policy,
                      random |-> random,
                      value |-> CalculateRetryDelay(a, retry_policy, random)])
    /\ UNCHANGED delay_frame

\* session.py 135-191: call_tool invoked on the session itself
SessionCall(p, inp) == CallTool(p, inp) /\ UNCHANGED invoked

\* The session used by the callers `procs`, who make the calls `inputs`, over
\* an underlying session whose sends end in `outcomes`.
NextOver(procs, inputs, outcomes) ==
    \/ \E p \in procs, inp \in inputs : SessionCall(p, inp)
    \/ \E p \in procs : Acquire(p)
    \/ \E p \in procs, outcome \in outcomes : SendEnds(p, outcome)
    \/ \E p \in procs : Wake(p)
    \/ \E p \in procs : Reset(p)
    \/ \E result \in HandshakeResults : SessionInitialize(result)
    \/ Tick

Next == NextOver(Procs, Inputs, SendOutcomes)

\* Concurrent callers.
Spec == Init /\ [][Next]_vars

\* One caller at a time, every retry policy and every kind of error.
NextRetry == NextOver({"t1"}, RetryInputs, RetryOutcomes)

SpecRetry == Init /\ [][NextRetry]_vars

\* The calls of callers who may cancel: with and without a key.
CancelInputs == {BaseInput, [BaseInput EXCEPT !.idempotency_key = Some(K1)]}

\* The ends of a send a cancellable call meets: a response or a (retryable) timeout.
CancelOutcomes == {o \in OkOutcomes : o.response = "r1"} \cup {TimeoutOutcome}

\* Concurrent callers who may cancel their calls.
NextCancel ==
    \/ NextOver(Procs, CancelInputs, CancelOutcomes)
    \/ \E p \in Procs : Cancel(p)

SpecCancel == Init /\ [][NextCancel]_vars

\* One caller over an underlying session that raises long texts.
NextLong == NextOver({"t1"}, RetryInputs, LongOutcomes)

SpecLong == Init /\ [][NextLong]_vars

\* The calls of callers that all have to get through the gate: the session's
\* policy and a policy of three attempts
LiveInputs == {BaseInput, [BaseInput EXCEPT !.retry_policy = Some(RetryPolicy(3))]}

\* Concurrent callers that call again and again
NextLive ==
    \/ \E p \in Procs, inp \in LiveInputs : SessionCall(p, inp)
    \/ \E p \in Procs : Acquire(p)
    \/ \E p \in Procs, outcome \in CancelOutcomes : SendEnds(p, outcome)
    \/ \E p \in Procs : Wake(p)
    \/ \E p \in Procs : Reset(p)

\* Every send ends (in a response, an error or the per-attempt timeout of
\* anyio.fail_after), every anyio.sleep ends, and the semaphore serves its
\* waiters fairly: a caller that could take a unit again and again gets one.
LiveFairness ==
    \A p \in Procs :
        /\ WF_vars(\E outcome \in CancelOutcomes : SendEnds(p, outcome))
        /\ WF_vars(Wake(p))
        /\ SF_vars(Acquire(p))

SpecLive == Init /\ [][NextLive]_vars /\ LiveFairness

\* One caller, every field of the call varied
NextFields == NextOver({"t1"}, FieldCalls, CancelOutcomes)

SpecFields == Init /\ [][NextFields]_vars

\* hasattr(self.mcp_session, "close"): the underlying session has a close
\* method, as the one of test_session_close.
HasClose == {TRUE}

\* Callers and a task that closes the session, up to MaxCloses times; the
\* callers start nothing once a close has returned.
NextClose ==
    \/ \E p \in Procs, inp \in CancelInputs : CallBeforeClose(p, inp)
    \/ \E p \in Procs : Acquire(p)
    \/ \E p \in Procs, outcome \in CancelOutcomes : SendEnds(p, outcome)
    \/ \E p \in Procs : Wake(p)
    \/ \E p \in Procs : Reset(p)
    \/ \E has_close \in HasClose : CloseBegin(has_close)
    \/ \E has_close \in HasClose : CloseGraceEnds(has_close)
    \/ CloseEnds

SpecClose == Init /\ [][NextClose]_vars

\* Concurrent invocations of the facade's initialize.
NextFacade ==
    \/ \E i \in Invokers : FacadeInitialize(i)
    \/ \E i \in Invokers : FacadeEnter(i)
    \/ \E i \in Invokers, result \in HandshakeResults : FacadeHandshakeEnds(i, result)
    \/ \E i \in Invokers : FacadeReturn(i)

SpecFacade == Init /\ [][NextFacade]_vars

\* The handshake of the server the facade is used with
RegistryHandshakes == {[capabilities |-> Some([experimental |-> Some({"mcp_tx"})])]}

\* One registry: tools are registered and looked up, and the caller writes to
\* what it was handed
NextRegistry ==
    \/ \E name \in ToolNames, entry \in ToolEntries : RegisterTool(name, entry)
    \/ \E name \in ToolNames : GetTool(name)
    \/ MutateHeldField
    \/ MutateHeldPolicy

SpecRegistry == Init /\ [][NextRegistry]_vars

\* The cache on its own: stores, lookups and the clock
NextStore ==
    \/ \E k \in StoreKeys, result \in StoreResults : StoreResult(k, result)
    \/ \E k \in StoreKeys : LookupStore(k)
    \/ TickStore

SpecStore == Init /\ [][NextStore]_vars

\* One `async with app:` statement, over a server whose handshake may fail,
\* and a caller that invokes a registered tool
NextScope ==
    \/ RegisterTool(<<"a">>, ToolEntry(None, None, None))
    \/ FacadeInitialize("i1")
    \/ FacadeEnter("i1")
    \/ \E result \in RegistryHandshakes : FacadeHandshakeEnds("i1", result)
    \/ FacadeHandshakeFails("i1")
    \/ \E raised \in BOOLEAN : ScopeBodyEnds("i1", raised)
    \/ \E has_close \in HasClose : ScopeClose("i1", has_close)
    \/ \E has_close \in HasClose : CloseGraceEnds(has_close)
    \/ CloseEnds
    \/ ScopeLeft("i1")
    \/ \E arguments \in FacadeArguments : FacadeCallTool("t1", <<"a">>, arguments, None)
    \/ Acquire("t1")
    \/ \E outcome \in CancelOutcomes : SendEnds("t1", outcome)
    \/ Wake("t1")
    \/ Reset("t1")

SpecScope == Init /\ [][NextScope]_vars

\* The retry delay on its own: every policy, attempt index and random draw
NextDelay ==
    \E a \in 0..MaxAttemptIndex, retry_policy \in BackoffPolicies, random \in RandomTenths :
        CalculateDelay(a, retry_policy, random)

SpecDelay == Init /\ [][NextDelay]_vars

\* One facade: tools are registered and invoked by one caller, before and
\* after the facade is initialized
InvokeTools == {<<"a">>, <<"1">>}

InvokeEntries ==
    { ToolEntry(None, None, None),
      ToolEntry(Some(RetryPolicy(3)), Some(GenByField), Some(15000)) }

InvokeNames == InvokeTools \cup {<<" ">>}

NextInvoke ==
    \/ \E name \in InvokeTools, entry \in InvokeEntries : RegisterTool(name, entry)
    \/ FacadeInitialize("i1")
    \/ FacadeEnter("i1")
    \/ \E result \in RegistryHandshakes : FacadeHandshakeEnds("i1", result)
    \/ FacadeReturn("i1")
    \/ \E name \in InvokeNames, arguments \in FacadeArguments, key \in FacadeKeys :
          FacadeCallTool("t1", name, arguments, key)
    \/ Acquire("t1")
    \/ \E outcome \in CancelOutcomes : SendEnds("t1", outcome)
    \/ Wake("t1")
    \/ Reset("t1")

SpecInvoke == Init /\ [][NextInvoke]_vars

\* A facade whose handshake may fail: two tasks invoke initialize, again after
\* a failure, while a caller registers a tool and invokes tools
FailInvokers == {"i1", "i2"}

NextInitFail ==
    \/ \E i \in FailInvokers : FacadeInitialize(i)
    \/ \E i \in FailInvokers : FacadeEnter(i)
    \/ \E i \in FailInvokers, result \in RegistryHandshakes : FacadeHandshakeEnds(i, result)
    \/ \E i \in FailInvokers : FacadeHandshakeFails(i)
    \/ \E i \in FailInvokers : FacadeCaught(i)
    \/ \E i \in FailInvokers : FacadeReturn(i)
    \/ RegisterTool(<<"a">>, ToolEntry(None, None, None))
    \/ \E name \in InvokeNames, arguments \in FacadeArguments :
          FacadeCallTool("t1", name, arguments, None)
    \/ Acquire("t1")
    \/ \E outcome \in OkOutcomes : SendEnds("t1", outcome)
    \/ Reset("t1")

SpecInitFail == Init /\ [][NextInitFail]_vars

(***************************************************************************)
(* What the claims speak about.                                            *)
(***************************************************************************)
\* The sends to the underlying session that are in flight.
InFlightSends == {p \in Procs : pc[p] = "sending"}

Returned(p) == pc[p] = "returned"

Fresh(p) == Returned(p) /\ ~res[p].mcp_tx_meta.duplicate

Duplicate(p) == Returned(p) /\ res[p].mcp_tx_meta.duplicate

FreshSuccess(p) == Fresh(p) /\ res[p].mcp_tx_meta.ack

FreshFailure(p) == Fresh(p) /\ ~res[p].mcp_tx_meta.ack

Keyed(p) == KeyGiven(call[p].idempotency_key)

\* The step is caller p starting a call that passes validation under key k
\* (only call_tool takes a caller out of "idle").
StartsWithKey(p, k) ==
    /\ pc[p] = "idle"
    /\ pc'[p] \in {"acquire", "returned"}
    /\ call'[p].idempotency_key = k

(***************************************************************************)
(* C1: at every moment the number of sends in flight to the underlying     *)
(* session is at most max_concurrent_requests.                             *)
(***************************************************************************)
C1_InFlightBounded == Cardinality(InFlightSends) <= MaxConcurrentRequests

\* Every unit is in use by a send in flight while another call waits for one.
C1_Witness ==
    /\ Cardinality(InFlightSends) = MaxConcurrentRequests
    /\ \E p \in Procs : pc[p] = "acquire"

(***************************************************************************)
(* C2 as stated: when c1 (caller q) has returned a successful result under *)
(* key K and c2 (caller p) then starts with K inside the deduplication     *)
(* window, c2 returns duplicate=true with c1's result and sends nothing.   *)
(* Every store happened at a time >= 0, so a start at a time <=            *)
(* DedupWindow is inside the window of every earlier store.  The runs in   *)
(* which an overlapping call has stored another result under K after c1    *)
(* are left aside here (they are C3's).                                    *)
(***************************************************************************)
C2_DuplicateOutcome(p, q) ==
    /\ pc'[p] = "returned"
    /\ res'[p].mcp_tx_meta.duplicate
    /\ res'[p].result = res[q].result
    /\ sends' = sends

C2_NotReplaced(q) ==
    CacheHas(cache, call[q].idempotency_key[1])
        => CacheGet(cache, call[q].idempotency_key[1]).result = res[q]

C2_Original ==
    [][\A p \in Procs, q \in Procs :
          (/\ p # q
           /\ FreshSuccess(q)
           /\ Keyed(q)
           /\ C2_NotReplaced(q)
           /\ now <= DedupWindow
           /\ StartsWithKey(p, call[q].idempotency_key))
          => C2_DuplicateOutcome(p, q)]_vars

(***************************************************************************)
(* C2 as amended: the same, provided that when c2 starts the cache still   *)
(* holds under K the entry c1 stored (not evicted by the trim of a cache   *)
(* over its cap, not replaced by a later store under K) and that entry is  *)
(* inside the window.                                                      *)
(***************************************************************************)
C2_EntryOf(q) ==
    /\ CacheHas(cache, call[q].idempotency_key[1])
    /\ CacheGet(cache, call[q].idempotency_key[1]).result = res[q]
    /\ EntryValid(CacheGet(cache, call[q].idempotency_key[1]).timestamp, now)

C2_Amended ==
    [][\A p \in Procs, q \in Procs :
          (/\ p # q
           /\ FreshSuccess(q)
           /\ Keyed(q)
           /\ C2_EntryOf(q)
           /\ StartsWithKey(p, call[q].idempotency_key))
          => C2_DuplicateOutcome(p, q)]_vars

\* c2 has returned c1's result as a duplicate without a send, after the clock
\* has advanced.
C2_Witness ==
    \E p \in Procs, q \in Procs :
        /\ p # q
        /\ FreshSuccess(q) /\ Keyed(q)
        /\ Duplicate(p) /\ call[p].idempotency_key = call[q].idempotency_key
        /\ res[p].result = res[q].result
        /\ sends[p] = 0
        /\ now > 0

(***************************************************************************)
(* C3 as stated, for two calls under one key that both completed: inside   *)
(* the window only one of them has sent to the underlying session, and the *)
(* other has returned the same result as a duplicate.                      *)
(***************************************************************************)
C3_ExactlyOnce ==
    \A p \in Procs, q \in Procs :
        (/\ p # q
         /\ Returned(p) /\ Returned(q)
         /\ res[p].mcp_tx_meta.ack /\ res[q].mcp_tx_meta.ack
         /\ Keyed(p) /\ call[p].idempotency_key = call[q].idempotency_key
         /\ now <= DedupWindow)
        => /\ sends[p] = 0 \/ sends[q] = 0
           /\ res[p].mcp_tx_meta.duplicate \/ res[q].mcp_tx_meta.duplicate
           /\ res[p].result = res[q].result

(***************************************************************************)
(* C4 as stated: when a call under key K returns a failure result, the     *)
(* cache holds an entry for K.                                             *)
(***************************************************************************)
C4_FailureCached ==
    [][\A p \in Procs :
          (/\ pc[p] = "sending"
           /\ pc'[p] = "returned"
           /\ ~res'[p].mcp_tx_meta.ack
           /\ Keyed(p))
          => CacheHas(cache', call[p].idempotency_key[1])]_vars

(***************************************************************************)
(* C5: every returned result, fresh or duplicate, has                      *)
(* 1 <= attempts <= max_attempts of the policy that was effective for the  *)
(* call that produced it (for a fresh result, the call's own policy).      *)
(***************************************************************************)
C5_AttemptsInBudget ==
    \A p \in Procs :
        Returned(p)
        => /\ 1 <= res[p].mcp_tx_meta.attempts
           /\ res[p].mcp_tx_meta.attempts <= produced_max[p]
           /\ Fresh(p) => produced_max[p] = call[p].retry_policy.max_attempts

\* A duplicate carries the 3 attempts of the call that produced it, while the
\* call that received it ran under a policy of 1 attempt.
C5_Witness ==
    \E p \in Procs :
        /\ Duplicate(p)
        /\ res[p].mcp_tx_meta.attempts = 3
        /\ produced_max[p] = 3
        /\ call[p].retry_policy.max_attempts = 1

(***************************************************************************)
(* C6 as stated: the attempts of a fresh result is the number of sends the *)
(* call has made.                                                          *)
(***************************************************************************)
C6_AttemptsAreSends ==
    \A p \in Procs : Fresh(p) => res[p].mcp_tx_meta.attempts = sends[p]

(***************************************************************************)
(* C7: every returned result with ack = true, fresh or duplicate, has no   *)
(* error_code and no error_message.                                        *)
(***************************************************************************)
C7_AckHasNoError ==
    \A p \in Procs :
        (Returned(p) /\ res[p].mcp_tx_meta.ack)
        => /\ res[p].mcp_tx_meta.error_code = None
           /\ res[p].mcp_tx_meta.error_message = None

\* A duplicate with ack = true has been served from the cache.
C7_Witness == \E p \in Procs : Duplicate(p) /\ res[p].mcp_tx_meta.ack

(***************************************************************************)
(* C8: a call whose every attempt failed with a retryable error does not   *)
(* raise; it returns ack=false, processed=false, final_status "failed",    *)
(* attempts = max_attempts, an error_code and a non-empty error_message,   *)
(* after exactly max_attempts sends.                                       *)
(***************************************************************************)
C8_ExhaustedRetries ==
    \A p \in Procs :
        /\ sends[p] > 0 => pc[p] # "raised"
        /\ (FreshFailure(p) /\ all_retryable[p])
           => /\ ~res[p].mcp_tx_meta.processed
              /\ res[p].mcp_tx_meta.final_status = "failed"
              /\ res[p].mcp_tx_meta.attempts = call[p].retry_policy.max_attempts
              /\ sends[p] = call[p].retry_policy.max_attempts
              /\ res[p].mcp_tx_meta.error_code # None
              /\ res[p].mcp_tx_meta.error_message # None
              /\ SanitizedLen(res[p].mcp_tx_meta.error_message[1]) > 0

\* Three attempts, each failed with a retryable error.
C8_Witness ==
    \E p \in Procs : FreshFailure(p) /\ all_retryable[p] /\ sends[p] = 3

(***************************************************************************)
(* C9: a call whose attempt k is the first to succeed (the k-1 before it   *)
(* failed with retryable errors, or the loop would have ended) returns     *)
(* ack=true, processed=true, duplicate=false, final_status "completed" and *)
(* attempts = k, after exactly k sends.                                    *)
(***************************************************************************)
C9_RetryThenSuccess ==
    \A p \in Procs :
        FreshSuccess(p)
        => /\ res[p].mcp_tx_meta.processed
           /\ res[p].mcp_tx_meta.final_status = "completed"
           /\ res[p].mcp_tx_meta.attempts = sends[p]
           /\ sends[p] <= call[p].retry_policy.max_attempts
           /\ all_retryable[p]

\* Two failed attempts, then a success on the third.
C9_Witness ==
    \E p \in Procs : FreshSuccess(p) /\ sends[p] = 3 /\ res[p].mcp_tx_meta.attempts = 3

(***************************************************************************)
(* C10: a call_tool with an invalid input raises before anything else      *)
(* happens: nothing is sent, no unit of the semaphore is taken, no tracker *)
(* is registered and the cache is as it was.  The invalid inputs are those *)
(* the claim lists.  Stated on the steps: a step that starts a call and    *)
(* does anything but raise is the call of no invalid input.                *)
(***************************************************************************)
C10_InvalidInput(inp) ==
    \/ \A i \in 1..Len(inp.name) : inp.name[i] \in Whitespace
    \/ \E i \in 1..Len(inp.name) : inp.name[i] \notin AlnumChars \cup {"-", "_"}
    \/ (inp.arguments # None /\ inp.arguments[1].type # "dict")
    \/ (inp.idempotency_key # None /\ Strip(inp.idempotency_key[1]) = <<>>)
    \/ (inp.timeout_ms # None /\ inp.timeout_ms[1] \notin 1..600000)

C10_InvalidInputs == {inp \in FieldCalls : C10_InvalidInput(inp)}

C10_RaisedOnly(p) ==
    /\ pc'[p] = "raised"
    /\ UNCHANGED <<sends, sem, active_requests, cache, res, call>>

C10_ValidationFirst ==
    [][\A p \in Procs :
          (pc[p] = "idle" /\ pc'[p] # "idle" /\ ~C10_RaisedOnly(p))
          => \A inp \in C10_InvalidInputs : ~CallTool(p, inp)]_vars

\* A call has raised its validation error while the cache holds the entry an
\* earlier call stored.
C10_Witness ==
    \E p \in Procs :
        /\ pc[p] = "raised"
        /\ cache # <<>>
        /\ sem = MaxConcurrentRequests

(***************************************************************************)
(* C11: once a call has returned, by a result or by a cancellation that    *)
(* went through it, the active-request map holds no tracker of that call;  *)
(* while the call is in its retry loop the tracker is there.               *)
(***************************************************************************)
C11_TrackerRemoved ==
    \A p \in Procs :
        /\ pc[p] \in {"returned", "raised", "cancelled", "idle"} => active_requests[p] = None
        /\ pc[p] \in {"sending", "sleeping"} => active_requests[p] # None

\* A call was cancelled after it had sent, while another call's tracker is in
\* the map.
C11_Witness ==
    \E p \in Procs, q \in Procs :
        /\ pc[p] = "cancelled" /\ sends[p] > 0
        /\ pc[q] = "sleeping" /\ active_requests[q] # None

(***************************************************************************)
(* C12: the units of the semaphore that are not available are held by the  *)
(* calls inside the gated region; whenever no call is inside it, all       *)
(* max_concurrent_requests units are available.                            *)
(***************************************************************************)
C12_InGate == {p \in Procs : pc[p] \in {"sending", "sleeping"}}

C12_NoSlotLeak ==
    /\ sem + Cardinality(C12_InGate) = MaxConcurrentRequests
    /\ C12_InGate = {} => sem = MaxConcurrentRequests

\* Every way out of the gated region has been taken: one call was cancelled
\* in it, the other was cancelled at the gate, and all units are back.
C12_Witness ==
    \E p \in Procs, q \in Procs :
        /\ pc[p] = "cancelled" /\ sends[p] > 0
        /\ pc[q] = "cancelled" /\ sends[q] = 0
        /\ sem = MaxConcurrentRequests

(***************************************************************************)
(* C13 as stated: a cancelled call has changed nothing in the cache.  The  *)
(* code of a call changes the cache in two places, the lookup (which       *)
(* deletes an expired entry) and the store after a success.                *)
(***************************************************************************)
C13_CacheUntouched ==
    \A p \in Procs : pc[p] = "cancelled" => ~removed_expired[p]

(***************************************************************************)
(* C13 as amended: a cancelled call stores nothing in the cache: no step   *)
(* of a call after its lookup, its cancellation included, changes the      *)
(* cache unless the call returns with it; the lookup at its start may have *)
(* deleted the expired entry of its key.                                   *)
(***************************************************************************)
C13_CancelStoresNothing ==
    [][\A p \in Procs :
          (/\ pc[p] \in {"acquire", "sending", "sleeping"}
           /\ pc'[p] \in {"sending", "sleeping", "cancelled"}
           /\ pc'[p] # pc[p])
          => cache' = cache]_vars

\* A call under a key was cancelled after it had sent, and the cache is empty.
C13_Witness ==
    \E p \in Procs :
        /\ pc[p] = "cancelled" /\ sends[p] > 0 /\ Keyed(p)
        /\ cache = <<>>

C15_ClosedIsEmpty ==
    (closed > 0 /\ close_pc = "idle")
    => /\ cache = <<>>
       /\ \A p \in Procs : active_requests[p] = None

(***************************************************************************)
(* C16 as stated: a close of a session that has been closed has no         *)
(* effect: no step of it changes the maps of the session or reaches the    *)
(* underlying session.                                                     *)
(***************************************************************************)
C16_CloseIdempotent ==
    [][(closed > 0 /\ (close_pc' # close_pc \/ closed' # closed))
       => /\ underlying_closes' = underlying_closes
          /\ cache' = cache
          /\ active_requests' = active_requests]_vars

(***************************************************************************)
(* C17: a lookup of a key whose entry was stored at time t returns the     *)
(* entry iff now - t <= deduplication_window_ms; when it is expired the    *)
(* lookup returns none and deletes it, otherwise the cache stays as it is; *)
(* after every store no entry older than the window is left.               *)
(***************************************************************************)
C17_Lookup(p) ==
    LET k == call'[p].idempotency_key[1]
        age == now - CacheGet(cache, k).timestamp
    IN /\ pc'[p] = "returned" <=> age <= DedupWindow
       /\ age <= DedupWindow => cache' = cache
       /\ age > DedupWindow => (pc'[p] = "acquire" /\ cache' = CacheDel(cache, k))

C17_WindowExact ==
    [][\A p \in Procs :
          /\ (/\ pc[p] = "idle"
              /\ pc'[p] \in {"acquire", "returned"}
              /\ KeyGiven(call'[p].idempotency_key)
              /\ CacheHas(cache, call'[p].idempotency_key[1]))
             => C17_Lookup(p)
          /\ (/\ pc[p] = "sending"
              /\ pc'[p] = "returned"
              /\ res'[p].mcp_tx_meta.ack
              /\ Keyed(p))
             => \A i \in 1..Len(cache') : now - cache'[i].timestamp <= DedupWindow]_vars

\* A lookup at the last instant of the window has returned the entry.
C17_Witness ==
    \E p \in Procs :
        /\ Duplicate(p)
        /\ CacheHas(cache, call[p].idempotency_key[1])
        /\ now - CacheGet(cache, call[p].idempotency_key[1]).timestamp = DedupWindow

(***************************************************************************)
(* C18: the entry a call stores is the result it returns, and a result     *)
(* served from the cache equals the stored one in every field (result,     *)
(* ack, processed, attempts, final_status, error_code, error_message)      *)
(* except duplicate, which is true.                                        *)
(***************************************************************************)
C18_DuplicateKeepsFields ==
    [][\A p \in Procs :
          /\ (/\ pc[p] = "sending"
              /\ pc'[p] = "returned"
              /\ res'[p].mcp_tx_meta.ack
              /\ Keyed(p)
              /\ CacheHas(cache', call[p].idempotency_key[1]))
             => CacheGet(cache', call[p].idempotency_key[1]).result = res'[p]
          /\ (pc[p] = "idle" /\ pc'[p] = "returned")
             => LET stored == CacheGet(cache, call'[p].idempotency_key[1]).result
                IN /\ res'[p].result = stored.result
                   /\ res'[p].mcp_tx_meta =
                          [stored.mcp_tx_meta EXCEPT !.duplicate = TRUE]
                   /\ ~stored.mcp_tx_meta.duplicate]_vars

\* A duplicate of a result that took three attempts has been served.
C18_Witness ==
    \E p \in Procs :
        /\ Duplicate(p)
        /\ res[p].mcp_tx_meta.attempts = 3
        /\ res[p].mcp_tx_meta.final_status = "completed"
        /\ res[p].result = Some("r2")

(***************************************************************************)
(* C19: a call that hits the dedup cache never acquires a concurrency      *)
(* slot: with a valid entry for its key it can return its duplicate even   *)
(* while no unit of the gate is free, and the step that returns the        *)
(* duplicate leaves the gate's count and the active-request map unchanged. *)
(***************************************************************************)
C19_HitInput == [BaseInput EXCEPT !.idempotency_key = Some(K1)]

C19_HitNeedsNoSlot ==
    /\ [](\A p \in Procs :
            (/\ pc[p] = "idle"
             /\ sem = 0
             /\ GetCachedResult(cache, K1, now) # None)
            => ENABLED SessionCall(p, C19_HitInput))
    /\ [][\A p \in Procs :
            (pc[p] = "idle" /\ pc'[p] = "returned")
            => /\ res'[p].mcp_tx_meta.duplicate
               /\ sem' = sem
               /\ active_requests' = active_requests]_vars

\* A duplicate has been returned and the gate is exhausted by another call in flight.
C19_Witness ==
    \E p, q \in Procs :
        /\ p # q
        /\ Duplicate(p)
        /\ sem = 0
        /\ pc[q] \in {"sending", "sleeping"}
        /\ active_requests[q] # None
        /\ active_requests[p] = None

\* session.py 121-123: handshake results whose experimental mapping may carry
\* entries other than mcp_tx
ServerHandshakes ==
    HandshakeResults \cup
    { [capabilities |-> Some([experimental |-> Some({"other"})])],
      [capabilities |-> Some([experimental |-> Some({"mcp_tx", "other"})])] }

\* session.py 124-126: what one handshake result says about the extension
AdvertisesMcpTx(result) ==
    ServerExperimental(result) # None /\ "mcp_tx" \in ServerExperimental(result)[1]

\* One session, initialized any number of times against any server
NextHandshake ==
    \/ NextOver({"t1"}, CancelInputs, CancelOutcomes)
    \/ \E result \in ServerHandshakes : SessionInitialize(result)

SpecHandshake == Init /\ [][NextHandshake]_vars

(***************************************************************************)
(* C20: after each initialize completes, mcp_tx_enabled is true iff the    *)
(* capabilities returned by that handshake contain experimental.mcp_tx; a  *)
(* missing experimental field and an empty one both yield false.           *)
(***************************************************************************)
C20_FlagFollowsHandshake ==
    [][\A result \in ServerHandshakes :
          SessionInitialize(result) => (mcp_tx_enabled' <=> AdvertisesMcpTx(result))]_vars

(***************************************************************************)
(* C21: every request sent for a tool call has method tools/call, with     *)
(* params.name the name of the call and params.arguments its arguments     *)
(* (an empty mapping when the call gave none), and it carries              *)
(* params._meta.mcp_tx iff mcp_tx_enabled is true when it is sent.  A      *)
(* request is in flight exactly while the caller is in its send.           *)
(***************************************************************************)
C21_RequestShape ==
    [][\A p \in Procs :
          /\ (pc'[p] = "sending") <=> (request'[p] # None)
          /\ (pc'[p] = "sending" /\ pc[p] # "sending")
             => LET r == request'[p][1]
                IN /\ r.method = "tools/call"
                   /\ {"name", "arguments"} \subseteq DOMAIN r.params
                   /\ r.params.name = call[p].name
                   /\ r.params.arguments =
                          (IF call[p].arguments = None
                           THEN [type |-> "dict", items |-> {}]
                           ELSE call[p].arguments[1])
                   /\ ("_meta" \in DOMAIN r.params) <=> mcp_tx_enabled
                   /\ mcp_tx_enabled => "mcp_tx" \in DOMAIN r.params._meta
                   /\ DOMAIN r.params \subseteq {"name", "arguments", "_meta"}]_vars

\* A call that gave no arguments has a request in flight that carries the
\* metadata and an empty mapping.
C21_Witness ==
    \E p \in Procs :
        /\ pc[p] = "sending"
        /\ call[p].arguments = None
        /\ request[p] # None
        /\ request[p][1].params.arguments.items = {}
        /\ "_meta" \in DOMAIN request[p][1].params
        /\ mcp_tx_enabled

(***************************************************************************)
(* C22: an attempt whose send runs into the per-attempt timeout fails with *)
(* a timeout error that is retryable and counts as an attempt: while       *)
(* attempts remain the call goes on to sleep and retry, and when the last  *)
(* attempt times out the call returns ack=false, final_status="failed",    *)
(* error_code MCP_TX_TIMEOUT and attempts = max_attempts, which is the     *)
(* number of requests it sent.                                             *)
(***************************************************************************)
C22_TimeoutCounts ==
    [][\A p \in Procs :
          SendEnds(p, TimeoutOutcome)
          => IF attempt[p] < call[p].retry_policy.max_attempts - 1
             THEN /\ pc'[p] = "sleeping"
                  /\ active_requests'[p] # None
                  /\ active_requests'[p][1].status = "failed"
                  /\ active_requests'[p][1].attempts = attempt[p] + 1
             ELSE /\ pc'[p] = "returned"
                  /\ ~res'[p].mcp_tx_meta.ack
                  /\ ~res'[p].mcp_tx_meta.duplicate
                  /\ res'[p].mcp_tx_meta.final_status = "failed"
                  /\ res'[p].mcp_tx_meta.error_code = Some("MCP_TX_TIMEOUT")
                  /\ res'[p].mcp_tx_meta.attempts = call[p].retry_policy.max_attempts
                  /\ res'[p].mcp_tx_meta.attempts = sends[p]]_vars

\* A call under a three-attempt policy has sent three requests, its last
\* attempt timed out, and it has failed.
C22_Witness ==
    \E p \in Procs :
        /\ FreshFailure(p)
        /\ res[p].mcp_tx_meta.error_code = Some("MCP_TX_TIMEOUT")
        /\ res[p].mcp_tx_meta.attempts = 3
        /\ sends[p] = 3
        /\ all_retryable[p]

(***************************************************************************)
(* C23: whenever the underlying send raises an error whose message         *)
(* contains "connection" or "network" in any case, the attempt fails with  *)
(* a network error: it is retried while attempts remain, and a call that   *)
(* fails on it reports error_code MCP_TX_NETWORK_ERROR; with or without    *)
(* the extension.                                                          *)
(***************************************************************************)
C23_NetworkErrors ==
    {e \in RawErrors : Contains(LowerStr(e.msg), "connection")
                        \/ Contains(LowerStr(e.msg), "network")}

C23_NetworkRetried ==
    [][\A p \in Procs : \A e \in C23_NetworkErrors :
          SendEnds(p, RaiseOutcome(e))
          => IF attempt[p] < call[p].retry_policy.max_attempts - 1
             THEN pc'[p] = "sleeping"
             ELSE /\ pc'[p] = "returned"
                  /\ res'[p].mcp_tx_meta.error_code = Some("MCP_TX_NETWORK_ERROR")]_vars

(***************************************************************************)
(* C24: a backoff sleep happens only between two attempts of the same      *)
(* call.  A call that sleeps has attempts left, the step that ends the     *)
(* sleep sends the next attempt, and a failing final attempt returns at    *)
(* once; so a call with max_attempts = 1 never sleeps and returns right    *)
(* after its single failing attempt.                                       *)
(***************************************************************************)
C24_SleepOnlyBetweenAttempts ==
    /\ [](\A p \in Procs :
            pc[p] = "sleeping"
            => /\ call[p].retry_policy.max_attempts > 1
               /\ sends[p] < call[p].retry_policy.max_attempts
               /\ sends[p] = attempt[p] + 1)
    /\ [][\A p \in Procs :
            /\ (pc[p] = "sleeping" /\ pc'[p] # "sleeping")
               => (pc'[p] = "sending" /\ sends'[p] = sends[p] + 1
                   /\ attempt'[p] = attempt[p] + 1)
            /\ (pc[p] = "sending" /\ pc'[p] # "sending"
                /\ attempt[p] = call[p].retry_policy.max_attempts - 1)
               => pc'[p] = "returned"]_vars

\* A call with max_attempts = 1 has failed on a retryable error after one send.
C24_Witness ==
    \E p \in Procs :
        /\ FreshFailure(p)
        /\ produced_max[p] = 1
        /\ sends[p] = 1
        /\ all_retryable[p]
        /\ res[p].mcp_tx_meta.error_code = Some("MCP_TX_NETWORK_ERROR")

(***************************************************************************)
(* C25: after every store the dedup cache holds at most CacheLimit (1000)  *)
(* entries.  When the store leaves more unexpired entries than that, the   *)
(* TrimCount (100) entries with the oldest timestamps are evicted, and     *)
(* every retained entry is at least as new as every evicted one; otherwise *)
(* the cache is exactly the unexpired entries.                             *)
(***************************************************************************)
C25_Entries(c) == {c[i] : i \in 1..Len(c)}

C25_Min(a, b) == IF a < b THEN a ELSE b

C25_StoreTrims(p) ==
    LET k == call[p].idempotency_key[1]
        stored == [key |-> k, result |-> res'[p], timestamp |-> now,
                   policy_max |-> call[p].retry_policy.max_attempts]
        unexpired == {e \in {x \in C25_Entries(cache) : x.key # k} \cup {stored} :
                         e.timestamp >= now - DedupWindow}
        retained == C25_Entries(cache')
        evicted == unexpired \ retained
    IN /\ Len(cache') <= CacheLimit
       /\ Cardinality(retained) = Len(cache')
       /\ retained \subseteq unexpired
       /\ IF Cardinality(unexpired) > CacheLimit
          THEN /\ Cardinality(evicted) = C25_Min(TrimCount, Cardinality(unexpired))
               /\ \A r \in retained, e \in evicted : r.timestamp >= e.timestamp
          ELSE evicted = {}

C26_RegisterGuarded ==
    /\ [](ToolCount <= MaxTools)
    /\ [][\A name \in ToolNames, entry \in ToolEntries :
            RegisterTool(name, entry)
            => IF ToolCount >= MaxTools \/ tools[name] # None
               THEN /\ registered'[1].outcome \in {"Registry full", "already registered"}
                    /\ tools' = tools
               ELSE /\ registered'[1].outcome = "ok"
                    /\ tools' = [tools EXCEPT ![name] = Some(entry)]]_vars

\* A register has failed on a name that is taken while the registry had room.
C26_Witness ==
    /\ registered # None
    /\ registered[1].outcome = "already registered"
    /\ tools[registered[1].name] # None
    /\ ToolCount < MaxTools

C28_WellFormed(name, arguments) ==
    /\ Len(Strip(name)) > 0
    /\ (arguments = None \/ arguments[1].type = "dict")

C28_NoSessionCall ==
    UNCHANGED <<pc, call, sends, sem, active_requests, cache, request, res>>

C28_InvokeGuarded ==
    [][\A p \in Procs, name \in FacadeNames, arguments \in FacadeArguments, key \in FacadeKeys :
          (/\ C28_WellFormed(name, arguments)
           /\ invoked' # None
           /\ invoked'[1].name = name
           /\ FacadeCallTool(p, name, arguments, key))
          => /\ ~initialized
                => (invoked'[1].outcome = "RuntimeError" /\ C28_NoSessionCall)
             /\ (initialized /\ (name \notin ToolNames \/ tools[name] = None))
                => (invoked'[1].outcome = "ValueError" /\ C28_NoSessionCall)]_vars

\* An invoke of a registered tool has raised RuntimeError on a facade that is
\* not initialized.
C28_Witness ==
    /\ invoked # None
    /\ invoked[1].outcome = "RuntimeError"
    /\ ~initialized
    /\ invoked[1].name \in ToolNames
    /\ tools[invoked[1].name] # None
    /\ \A p \in Procs : pc[p] = "idle" /\ sends[p] = 0

(***************************************************************************)
(* C29: the idempotency key the facade passes to the session is the        *)
(* explicit key when one is given, and the generator is then not invoked;  *)
(* otherwise the value of the tool's generator applied to the arguments;   *)
(* and no key when the tool has no generator or the generator raises.  A   *)
(* generator exception never makes invoke fail: the call goes on to the    *)
(* session.                                                                *)
(***************************************************************************)
C29_ResolvedKey(p, name, arguments, key) ==
    LET entry == tools[name][1]
        gen == entry.idempotency_key_generator
        args == IF arguments = None THEN Some([type |-> "dict", items |-> {}]) ELSE arguments
        passed == invoked'[1].passed[1].idempotency_key
    IN /\ invoked'[1].outcome = "delegated"
       /\ pc'[p] \in {"acquire", "returned"}
       /\ call'[p].idempotency_key = passed
       /\ key # None => (passed = key /\ ~invoked'[1].generator_invoked)
       /\ (key = None /\ gen = None) => passed = None
       /\ (key = None /\ gen # None)
             => IF GeneratorRaises(gen[1], args)
                THEN passed = None
                ELSE passed = GeneratorValue(gen[1], args)

C29_KeyResolution ==
    [][\A p \in Procs, name \in ToolNames, arguments \in FacadeArguments, key \in FacadeKeys :
          (/\ C28_WellFormed(name, arguments)
           /\ initialized
           /\ tools[name] # None
           /\ invoked' # None
           /\ invoked'[1].name = name
           /\ FacadeCallTool(p, name, arguments, key))
          => C29_ResolvedKey(p, name, arguments, key)]_vars

\* The generator has raised and the call is with the session, without a key.
C29_Witness ==
    \E p \in Procs :
        /\ invoked # None
        /\ invoked[1].outcome = "delegated"
        /\ invoked[1].generator_raised
        /\ pc[p] = "sending"
        /\ call[p].idempotency_key = None

(***************************************************************************)
(* C30: the retry policy and the timeout effective for a call are the      *)
(* per-call values when supplied and the session's defaults otherwise; the *)
(* facade's invoke supplies exactly the retry_policy and timeout_ms the    *)
(* tool was registered with, so a tool registered without them runs under  *)
(* the session's defaults.  The effective timeout is the one the request   *)
(* metadata carries.                                                       *)
(***************************************************************************)
C30_Effective(p, name) ==
    LET entry == tools[name][1]
        passed == invoked'[1].passed[1]
    IN /\ passed.retry_policy = entry.retry_policy
       /\ passed.timeout_ms = entry.timeout_ms
       /\ call'[p].retry_policy =
              (IF entry.retry_policy = None THEN ConfigRetryPolicy ELSE entry.retry_policy[1])
       /\ call'[p].timeout_ms =
              (IF entry.timeout_ms = None THEN DefaultTimeoutMs ELSE entry.timeout_ms[1])

C30_OverridesWin ==
    [][\A p \in Procs :
          /\ \A name \in ToolNames, arguments \in FacadeArguments, key \in FacadeKeys :
                (/\ invoked' # None
                 /\ invoked'[1].name = name
                 /\ invoked'[1].outcome = "delegated"
                 /\ FacadeCallTool(p, name, arguments, key))
                => C30_Effective(p, name)
          /\ (pc'[p] = "sending" /\ "_meta" \in DOMAIN request'[p][1].params)
                => request'[p][1].params._meta.mcp_tx.timeout_ms = call'[p].timeout_ms
          /\ pc'[p] \in {"sending", "sleeping"}
                => sends'[p] <= call'[p].retry_policy.max_attempts]_vars

\* A tool registered without a policy and a timeout is being sent under the
\* session's defaults.
C30_Witness ==
    \E p \in Procs :
        /\ pc[p] = "sending"
        /\ invoked # None
        /\ invoked[1].outcome = "delegated"
        /\ invoked[1].passed[1].retry_policy = None
        /\ invoked[1].passed[1].timeout_ms = None
        /\ call[p].retry_policy = ConfigRetryPolicy
        /\ call[p].timeout_ms = DefaultTimeoutMs
        /\ request[p][1].params._meta.mcp_tx.timeout_ms = DefaultTimeoutMs

(***************************************************************************)
(* C32 as stated: when a result was stored under K (the last store under   *)
(* K, call A's) and a lookup of K comes while that store is still inside   *)
(* the window, the lookup returns A's result, whatever was stored under    *)
(* other keys in between.                                                  *)
(***************************************************************************)
C32_StoredInWindow(k) ==
    /\ store.last[k] # None
    /\ store.now - store.last[k][1].timestamp <= DedupWindow

C32_SeesStored(k) ==
    LET got == store'.op[1].got
        stored == store.last[k][1].result
    IN /\ got # None
       /\ got[1].result = stored.result
       /\ got[1].mcp_tx_meta = [stored.mcp_tx_meta EXCEPT !.duplicate = TRUE]

C32_NewerSeesOlder ==
    [][\A k \in StoreKeys :
          (LookupStore(k) /\ C32_StoredInWindow(k)) => C32_SeesStored(k)]_vars

(***************************************************************************)
(* C32 as amended: the lookup returns A's result provided A's entry is     *)
(* still in the cache; and a store under another key takes an entry that   *)
(* is inside the window out of the cache only when it leaves more          *)
(* unexpired entries than the cap, by the trim of the oldest entries.      *)
(***************************************************************************)
C32_UnexpiredAfterPut(c, k, current_time) ==
    Cardinality({i \in 1..Len(c) :
                    c[i].key # k /\ c[i].timestamp >= current_time - DedupWindow}) + 1

C32_Amended ==
    [][\A k \in StoreKeys :
          /\ (LookupStore(k) /\ C32_StoredInWindow(k) /\ CacheHas(store.cache, k))
                => C32_SeesStored(k)
          /\ \A k2 \in StoreKeys \ {k}, result \in StoreResults :
                (/\ StoreResult(k2, result)
                 /\ C32_StoredInWindow(k)
                 /\ CacheHas(store.cache, k)
                 /\ ~CacheHas(store'.cache, k))
                => C32_UnexpiredAfterPut(store.cache, k2, store.now) > StoreCap]_vars

\* A lookup has returned what was stored under its key although another key
\* was stored after it: both entries are in the cache.
C32_Witness ==
    /\ store.op # None
    /\ store.op[1].kind = "lookup"
    /\ store.op[1].got # None
    /\ Len(store.cache) = 2
    /\ \E i \in 1..Len(store.cache) :
          /\ store.cache[i].key # store.op[1].key
          /\ store.cache[i].timestamp > CacheGet(store.cache, store.op[1].key).timestamp

(***************************************************************************)
(* C35 as stated: a store of (K, result) into a cache that holds result    *)
(* under K leaves the cache as it was up to the timestamp of K's entry:    *)
(* the same keys in the same order, the same result under every key.       *)
(***************************************************************************)
C35_Content(c) == [i \in 1..Len(c) |-> [key |-> c[i].key, result |-> c[i].result]]

C35_StoreTwiceIsOnce ==
    [][\A k \in StoreKeys, result \in StoreResults :
          (/\ StoreResult(k, result)
           /\ CacheHas(store.cache, k)
           /\ CacheGet(store.cache, k).result = result)
          => C35_Content(store'.cache) = C35_Content(store.cache)]_vars

(***************************************************************************)
(* C35 as amended: the same, up to the timestamp of K's entry and up to    *)
(* the entries of other keys that are expired at the second store, which   *)
(* the second store removes.                                               *)
(***************************************************************************)
C35_Kept(c, k, current_time) ==
    SelectSeq(c, LAMBDA e : e.key = k \/ e.timestamp >= current_time - DedupWindow)

C35_Amended ==
    [][\A k \in StoreKeys, result \in StoreResults :
          (/\ StoreResult(k, result)
           /\ CacheHas(store.cache, k)
           /\ CacheGet(store.cache, k).result = result)
          => /\ C35_Content(store'.cache) = C35_Content(C35_Kept(store.cache, k, store.now))
             /\ CacheGet(store'.cache, k).timestamp = store.now]_vars

\* A result has been stored a second time, later than the first time, into a
\* cache that holds another entry as well.
C35_Witness ==
    /\ store.op # None
    /\ store.op[1].kind = "store"
    /\ store.op[1].again
    /\ Len(store.cache) = 2
    /\ store.now > 0
    /\ \A i \in 1..Len(store.cache) :
          store.cache[i].key # store.op[1].key => store.cache[i].timestamp < store.now

(***************************************************************************)
(* C39: a lookup that hits leaves the cache as it is: the timestamp of the *)
(* entry is not refreshed, so the entry is visible for the window counted  *)
(* from its store however often it is read, and no stored entry ever has   *)
(* duplicate set.                                                          *)
(***************************************************************************)
C39_HitLeavesCache ==
    /\ [](\A i \in 1..Len(cache) : ~cache[i].result.mcp_tx_meta.duplicate)
    /\ [][\A p \in Procs :
            (pc[p] = "idle" /\ pc'[p] = "returned")
            => /\ cache' = cache
               /\ res'[p].mcp_tx_meta.duplicate
               /\ CacheGet(cache', call'[p].idempotency_key[1]).timestamp >= now - DedupWindow]_vars

\* An entry has been read by both callers, later than it was stored.
C39_Witness ==
    \E p, q \in Procs :
        /\ p # q
        /\ Duplicate(p) /\ Duplicate(q)
        /\ call[p].idempotency_key = call[q].idempotency_key
        /\ CacheHas(cache, call[p].idempotency_key[1])
        /\ CacheGet(cache, call[p].idempotency_key[1]).timestamp < now
        /\ ~CacheGet(cache, call[p].idempotency_key[1]).result.mcp_tx_meta.duplicate

(***************************************************************************)
(* C33: within one call the attempts are strictly sequential: a send is    *)
(* made only by a call that has no send in flight, the first one when the  *)
(* gate is passed and every later one when the backoff sleep after the     *)
(* failed attempt before it is over.  Each attempt makes one send, and the *)
(* retry_count in the metadata of the a-th send is a, counted from 0, so   *)
(* it goes up by one from each send of the call to the next.               *)
(***************************************************************************)
C33_Sent(p) == sends'[p] # sends[p] /\ sends'[p] # 0

C33_AttemptsInTurn ==
    /\ [](\A p \in Procs :
             /\ pc[p] \in {"sending", "sleeping"} => sends[p] = attempt[p] + 1
             /\ request[p] # None <=> pc[p] = "sending")
    /\ [][\A p \in Procs :
            C33_Sent(p)
            => /\ sends'[p] = sends[p] + 1
               /\ pc[p] = (IF sends[p] = 0 THEN "acquire" ELSE "sleeping")
               /\ request[p] = None
               /\ pc'[p] = "sending"
               /\ attempt'[p] = sends[p]
               /\ "_meta" \in DOMAIN request'[p][1].params
                     => request'[p][1].params._meta.mcp_tx.retry_count = sends[p]]_vars

\* The third send of a call is in flight, and its metadata says retry_count 2.
C33_Witness ==
    \E p \in Procs :
        /\ pc[p] = "sending"
        /\ sends[p] = 3
        /\ "_meta" \in DOMAIN request[p][1].params
        /\ request[p][1].params._meta.mcp_tx.retry_count = 2

(***************************************************************************)
(* C34: the tracker of a call starts Pending, and every change of its      *)
(* status is Pending -> Sent, Sent -> Acknowledged, Sent -> Failed or, on  *)
(* a retry, Failed -> Sent.  Acknowledged is terminal; a timeout is        *)
(* recorded as Failed and the Timeout status is never given; and once the  *)
(* call has returned its tracker is not in the active-request map.  (The   *)
(* one update that changes no status is the last one of a failed call,     *)
(* which gives a Failed tracker the status Failed again.)                  *)
(***************************************************************************)
C34_Transitions ==
    { <<"pending", "sent">>, <<"sent", "acknowledged">>,
      <<"sent", "failed">>, <<"failed", "sent">> }

C34_Lifecycle(p) ==
    LET log == tracker_log[p]
        n == Len(log)
    IN /\ n > 0 => log[1] = "pending"
       /\ \A i \in 1..(n - 1) :
             IF log[i] = log[i + 1]
             THEN log[i] = "failed" /\ i + 1 = n /\ pc[p] = "returned"
             ELSE <<log[i], log[i + 1]>> \in C34_Transitions
       /\ \A i \in 1..n : log[i] # "timeout"
       /\ \A i \in 1..n : log[i] = "acknowledged" => (i = n /\ pc[p] = "returned")
       /\ active_requests[p] # None => active_requests[p][1].status = log[n]
       /\ (pc[p] = "returned" /\ n > 0) => log[n] \in {"acknowledged", "failed"}
       /\ pc[p] \in {"idle", "acquire", "returned", "raised", "cancelled"}
             => active_requests[p] = None

C34_TrackerLifecycle ==
    /\ [](\A p \in Procs : C34_Lifecycle(p))
    /\ [][\A p \in Procs :
            (pc[p] = "sending" /\ SendEnds(p, TimeoutOutcome))
            => tracker_log'[p][Len(tracker_log'[p])] = "failed"]_vars

\* A call has returned after a failed attempt, a retry and an acknowledged
\* one, and its tracker is gone from the map.
C34_Witness ==
    \E p \in Procs :
        /\ pc[p] = "returned"
        /\ tracker_log[p] = <<"pending", "sent", "failed", "sent", "acknowledged">>
        /\ active_requests[p] = None

(***************************************************************************)
(* C38: every error_message of a returned result and every last_error of a *)
(* tracker is at most 200 characters long: a text that is longer than 200  *)
(* characters after redaction is cut to its first 197 characters and "..." *)
(* is appended, and a text of at most 200 characters is left as it is.     *)
(***************************************************************************)
C38_Bounded(m) ==
    /\ SanitizedLen(m) <= 200
    /\ IF TextLen(m.words) > 200
       THEN m.cut = Some(197) /\ SanitizedLen(m) = 200
       ELSE m.cut = None /\ SanitizedLen(m) = TextLen(m.words)

C38_ErrorsBounded ==
    \A p \in Procs :
        /\ (pc[p] = "returned" /\ res[p].mcp_tx_meta.error_message # None)
              => C38_Bounded(res[p].mcp_tx_meta.error_message[1])
        /\ (active_requests[p] # None /\ active_requests[p][1].last_error # None)
              => C38_Bounded(active_requests[p][1].last_error[1])

\* The tracker of a call holds a text that was cut while the call sleeps
\* before its retry.
C38_Witness ==
    \E p \in Procs :
        /\ pc[p] = "sleeping"
        /\ active_requests[p] # None
        /\ active_requests[p][1].last_error # None
        /\ active_requests[p][1].last_error[1].cut = Some(197)
        /\ TextLen(active_requests[p][1].last_error[1].words) > 200

\* A failure has been returned with a text of exactly 200 characters, uncut.
C38_WitnessUncut ==
    \E p \in Procs :
        /\ FreshFailure(p)
        /\ res[p].mcp_tx_meta.error_message[1].cut = None
        /\ TextLen(res[p].mcp_tx_meta.error_message[1].words) = 200

(***************************************************************************)
(* C36: for every valid retry policy and attempt index, with and without   *)
(* jitter, the retry delay is at least base_delay_ms, so never negative;   *)
(* without jitter it equals                                                *)
(* max(min(base_delay_ms * multiplier^attempt, max_delay_ms), base_delay_ms). *)
(***************************************************************************)
\* max(min(base * multiplier^attempt, max_delay), base), as a numerator over
\* the multiplier's denominator ^ attempt
C36_ClampedNumerator(a, retry_policy) ==
    Max(BackoffNumerator(a, retry_policy),
        retry_policy.base_delay_ms * Pow(retry_policy.backoff_multiplier[2], a))

C36_AtLeastBase ==
    delay # None
    => /\ delay[1].value >= delay[1].retry_policy.base_delay_ms
       /\ delay[1].value >= 0

\* As stated: the delay without jitter is that value itself.
C36_DelayIsClamped ==
    /\ C36_AtLeastBase
    /\ (delay # None /\ ~delay[1].retry_policy.jitter)
          => delay[1].value * Pow(delay[1].retry_policy.backoff_multiplier[2], delay[1].attempt)
                = C36_ClampedNumerator(delay[1].attempt, delay[1].retry_policy)

\* C36, amended: without jitter the delay is the integer part of that value
\* (the delay is returned through int()).
C36_Amended ==
    /\ C36_AtLeastBase
    /\ (delay # None /\ ~delay[1].retry_policy.jitter)
          => LET d == Pow(delay[1].retry_policy.backoff_multiplier[2], delay[1].attempt)
                 n == C36_ClampedNumerator(delay[1].attempt, delay[1].retry_policy)
             IN /\ delay[1].value * d <= n
                /\ n < (delay[1].value + 1) * d

\* Without jitter, 101 * 1.5 ^ 1 = 151.5 has given the delay 151.
C36_Witness ==
    /\ delay # None
    /\ delay[1].retry_policy = BackoffPolicy(101, 30000, <<3, 2>>, FALSE)
    /\ delay[1].attempt = 1
    /\ delay[1].value = 151

\* With jitter, a draw that takes a fifth off the delay has given base_delay_ms.
C36_WitnessJitter ==
    /\ delay # None
    /\ delay[1].retry_policy.jitter
    /\ delay[1].attempt = 0
    /\ delay[1].random = 0
    /\ delay[1].value = delay[1].retry_policy.base_delay_ms

(***************************************************************************)
(* C37: when every send ends and the gate is served fairly, every call     *)
(* returns: a call waiting at the gate gets a unit, and a call inside the  *)
(* gate makes at most max_attempts sends and at most max_attempts - 1      *)
(* sleeps and then returns.                                                *)
(***************************************************************************)
C37_Running(p) == pc[p] \in {"acquire", "sending", "sleeping"}

\* Each send after the first comes out of one sleep.
C37_Sleeps(p) == IF pc[p] = "sleeping" THEN sends[p] ELSE Max(sends[p] - 1, 0)

C37_EveryCallReturns ==
    \A p \in Procs :
        /\ [](C37_Running(p)
                => /\ sends[p] <= call[p].retry_policy.max_attempts
                   /\ C37_Sleeps(p) <= call[p].retry_policy.max_attempts - 1)
        /\ (pc[p] = "acquire") ~> (pc[p] = "sending")
        /\ C37_Running(p) ~> (pc[p] = "returned")

\* A caller waits at the gate while the other, inside it, makes the last send
\* its policy allows.
C37_Witness ==
    \E p \in Procs, q \in Procs :
        /\ pc[p] = "acquire"
        /\ sem = 0
        /\ pc[q] = "sending"
        /\ sends[q] = 3
        /\ call[q].retry_policy.max_attempts = 3

(***************************************************************************)
(* C40: when the handshake fails inside the facade's initialize, the       *)
(* facade stays uninitialized and the lock is released: the flag is set    *)
(* only by a handshake that returned, the lock is held only by a task      *)
(* whose handshake is under way, an invoke on the uninitialized facade     *)
(* raises RuntimeError although a session object exists, and a task that   *)
(* waits for the lock or invokes initialize later can take the lock and    *)
(* then sends the handshake again instead of returning as if initialized.  *)
(***************************************************************************)
C40_LockFollowsHandshake ==
    /\ \A i \in Invokers : init_lock = Some(i) <=> fpc[i] = "handshake"
    /\ \A i \in Invokers : fpc[i] = "lock" /\ init_lock = None => ENABLED FacadeEnter(i)
    /\ (\E i \in Invokers : fpc[i] = "lock")
          => (init_lock = None \/ \E j \in Invokers : fpc[j] = "handshake")

C40_FailureLeavesUninitialized ==
    /\ []C40_LockFollowsHandshake
    /\ [][\A i \in Invokers :
            /\ (fpc[i] = "handshake" /\ fpc'[i] = "failed")
                  => (initialized' = initialized /\ ~initialized' /\ init_lock' = None)
            /\ (initialized' /\ ~initialized)
                  => \E j \in Invokers : fpc[j] = "handshake" /\ fpc'[j] = "done"
            /\ (fpc[i] \in {"idle", "lock"} /\ fpc'[i] = "done") => initialized
            /\ (fpc[i] = "lock" /\ fpc'[i] # "lock" /\ ~initialized)
                  => (fpc'[i] = "handshake" /\ handshakes' = handshakes + 1)]_vars
    /\ [][\A name \in InvokeNames, arguments \in FacadeArguments :
            (/\ ~initialized
             /\ C28_WellFormed(name, arguments)
             /\ invoked' # invoked
             /\ FacadeCallTool("t1", name, arguments, None))
            => invoked'[1].outcome = "RuntimeError"]_vars

\* After a failed handshake an invoke has raised RuntimeError, and the task
\* that waited for the lock is sending the handshake again.
C40_Witness ==
    \E i \in Invokers, j \in Invokers :
        /\ fpc[i] = "failed"
        /\ fpc[j] = "handshake"
        /\ handshakes = 2
        /\ ~initialized
        /\ mcp_tx_session # None
        /\ invoked # None
        /\ invoked[1].outcome = "RuntimeError"
        /\ tools[invoked[1].name] # None

(***************************************************************************)
(* C31: the facade used as a scoped resource closes the reliability        *)
(* session, and through it the underlying session, on every way out of     *)
(* the scope: the end of the body, an exception raised in the body, and a  *)
(* failure of the entry after the session object was made.                 *)
(***************************************************************************)
C31_SessionClosed ==
    /\ closed >= 1
    /\ underlying_closes >= 1
    /\ close_pc = "idle"

C31_ClosedOnEveryExit ==
    \A i \in Invokers :
        (fpc[i] \in {"exited", "exited_raised", "failed"} /\ mcp_tx_session # None)
        => C31_SessionClosed

\* The part that holds: the session is closed when the body was entered.
C31_ClosedAfterBody ==
    \A i \in Invokers : fpc[i] \in {"exited", "exited_raised"} => C31_SessionClosed

\* The scope has been left by an exception of the body, with the session closed.
C31_Witness ==
    \E i \in Invokers :
        /\ fpc[i] = "exited_raised"
        /\ mcp_tx_session # None
        /\ C31_SessionClosed

====
